---- MODULE Spec2Model ----
(***************************************************************************)
(* A model of LectureLab AI (techsplot/lecture-ai): the App component's    *)
(* state (view, error, selected media, module step, module data, concept   *)
(* index, quiz answers), the handlers that change it, the requests to the  *)
(* generative service that are in flight, and the components that call the *)
(* handlers (FileUpload, AnalysisView, PreQuestView, QuestView, QuizItem,  *)
(* ResultsOverview) together with the service function generateImage.      *)
(*                                                                         *)
(* A nullable value (T | null) is a sequence of length at most one:        *)
(* Null is <<>> and Some(x) is <<x>>.  ModuleStep is one of the strings    *)
(* "null", "generating", "pre-module", "learning", "results"; "null" is    *)
(* the value null of the source.                                           *)
(***************************************************************************)
EXTENDS Integers, Sequences, FiniteSets, TLC

VARIABLES
    \* ---- App (src/unnamed/part_000, lines 13-24)
    view, error, selectedMedia, moduleStep, moduleData, transcription,
    currentConceptIndex, quizAnswers,
    \* ---- generateModuleData calls of startGeneration that have not completed
    pending,
    \* ---- FileUpload (src/components/QuizItem.tsx, line 111)
    fuError,
    \* ---- AnalysisView (src/components/AnalysisView.tsx, lines 66-76)
    localTranscription, isTranscribing, avError,
    \* ---- ResultsOverview: what its useMemo computed, Null while not rendered
    results,
    \* ---- PreQuestView (src/components/PreQuestView.tsx, lines 21-25)
    imageUrls, isLoading, pqError, matchedPairs,
    \* ---- the generateImage call of PreQuestView's fetchImages (lines 384-423):
    \*      where it is suspended, the visual-task item it is for, its locals
    \*      retries and backoff, the generateImages requests it has made, the
    \*      delays it has started and the message of the error it threw
    giPc, giItem, retries, backoff, giRequests, giDelays, giThrown,
    \* ---- the length of the visualTask array that fetchImages call iterates
    giItems,
    \* ---- the fetchImages loops of earlier runs of the effect that have not
    \*      ended: for each the generateImage call it is in (pc, item, retries,
    \*      backoff) and whether the component that started it is still mounted
    orphaned,
    \* ---- AnalysisView: the state of the AI Analysis Hub tools
    tools,
    \* ---- ConceptCard: its state, with the generateImage call of its effect
    card,
    \* ---- the service: the call of an operation being followed (its
    \*      operation, the requests it has issued, where it is, its outcome)
    svc,
    \* ---- the handler that ran last: its name, its arguments, and whether it
    \*      changed view, error, moduleStep, moduleData, currentConceptIndex
    \*      or quizAnswers
    lastOp

appVars == <<view, error, selectedMedia, moduleStep, moduleData, transcription,
             currentConceptIndex, quizAnswers>>
localVars == <<fuError, localTranscription, isTranscribing, avError>>
preQuestVars == <<imageUrls, isLoading, pqError, matchedPairs>>
imageVars == <<giPc, giItem, retries, backoff, giRequests, giDelays, giThrown,
               giItems, orphaned>>
serviceVars == <<tools, card, svc>>
vars == <<appVars, pending, localVars, results, preQuestVars, imageVars,
          serviceVars, lastOp>>

\* The six fields a generation completion may touch.
moduleFields == <<view, error, moduleStep, moduleData, currentConceptIndex,
                  quizAnswers>>

Null == <<>>
Some(x) == <<x>>

-----------------------------------------------------------------------------
(* Bounds of the model *)

\* the most concepts a generated module holds
MaxConcepts == 2
\* the most generateModuleData calls in flight at once
MaxInFlight == 2
\* SpecOverlap: the most generateModuleData calls in flight at once
MaxGenerations == 3
\* the items of a generated module's visual task
VisualItems == 3
\* the most generateImage calls of earlier runs of ConceptCard's image effect
\* that are in flight at once
MaxStale == 1
\* SpecNav: the most concepts of the module that is navigated
NavConcepts == 10
\* SpecAnswers: the concepts answers are recorded for
AnsConcepts == 2
\* SpecResults: the most concepts of the module that is scored, and the most
\* questions of each of its concepts
ResConcepts == 10
ResQuestions == 4

-----------------------------------------------------------------------------
(* Data *)

\* a string as the sequence of its characters, so that startsWith is computed
AudioPrefix == <<"a", "u", "d", "i", "o", "/">>
VideoPrefix == <<"v", "i", "d", "e", "o", "/">>
AudioMpeg == AudioPrefix \o <<"m", "p", "e", "g">>
VideoMp4 == VideoPrefix \o <<"m", "p", "4">>
ImagePng == <<"i", "m", "a", "g", "e", "/", "p", "n", "g">>
TextAudio == <<"t", "e", "x", "t", "/">> \o AudioPrefix
NoType == <<>>

\* String.prototype.startsWith
StartsWith(s, prefix) ==
    /\ Len(s) >= Len(prefix)
    /\ SubSeq(s, 1, Len(prefix)) = prefix

MAX_FILE_SIZE_MB == 20
MAX_FILE_SIZE_BYTES == MAX_FILE_SIZE_MB * 1024 * 1024

FileTypes == {AudioMpeg, VideoMp4, ImagePng, TextAudio, NoType}
FileSizes == {MAX_FILE_SIZE_BYTES - 1, MAX_FILE_SIZE_BYTES, MAX_FILE_SIZE_BYTES + 1}

\* SelectedMedia = File | YouTubeVideo; a File has no videoId
File(t, s) == [kind |-> "file", type |-> t, size |-> s, videoId |-> ""]
Video(id) == [kind |-> "video", type |-> NoType, size |-> 0, videoId |-> id]
Files == {File(t, s) : t \in FileTypes, s \in FileSizes}
Videos == {Video("v1")}

isYouTubeVideo(media) == media.kind = "video"

\* QuizQuestion: options empty means short answer
MultipleChoice == [options |-> <<"A", "B">>, answer |-> "A"]
ShortAnswer == [options |-> <<>>, answer |-> "A"]

\* Concept i of a generated module with l quiz questions: its quiz, in which
\* multiple choice and short answer alternate, and its image_prompt, a string
\* of its own
ConceptOf(i, l) ==
    [quiz |-> [q \in 1..l |-> IF (i + q) % 2 = 0 THEN MultipleChoice ELSE ShortAnswer],
     image_prompt |-> <<"scene", i>>]

\* VisualTaskItem k of the module with n concepts: its term and its
\* image_prompt, strings that differ from item to item and from one generated
\* module to another
VisualTaskItem(n, k) ==
    [term |-> <<"term", n, k>>, image_prompt |-> <<"prompt", n, k>>]

\* the JSON text of a ModuleData with n concepts of l questions, once parsed;
\* hasConcepts is false for a JSON value with no concepts array (JSON.parse ...
\* as ModuleData checks nothing)
ModuleOf(n, l) ==
    [hasConcepts |-> TRUE,
     concepts |-> [i \in 1..n |-> ConceptOf(i, l)],
     visual_task |-> [k \in 1..VisualItems |-> VisualTaskItem(n, k)]]
\* what the service generates under Spec: one question for each concept
Module(n) == ModuleOf(n, 1)
Shapeless == [hasConcepts |-> FALSE, concepts |-> <<>>, visual_task |-> <<>>]

\* QuizAnswers: conceptIndex -> questionIndex -> {selected, isCorrect}
EmptyAnswers == <<>>

\* the module the prompt asks for: 5-10 concepts, here 6, each with exactly 3
\* quiz questions
ExampleConcepts == 6
ExampleQuestions == 3
LessonResponse == [kind |-> "lesson", n |-> ExampleConcepts]

\* what ai.models.generateContent gave generateModuleData: a rejection with
\* an Error or with some other value, no text, a text that is not JSON, JSON
\* that is no module, or a module of n concepts
Responses ==
    {[kind |-> k, n |-> 0] :
        k \in {"rejected", "rejectedValue", "empty", "malformed", "shapeless"}}
    \cup {[kind |-> "module", n |-> n] : n \in 0..MaxConcepts}

ZeroConceptsMessage ==
    "The AI failed to identify any learning concepts. Please try a different source."
EmptyModuleMessage ==
    "Failed to generate module concepts: The AI failed to generate the module from the transcription. This can happen with complex or lengthy content. Please try a shorter file."
MalformedModuleMessage == "Failed to generate module concepts: Unexpected token"
RejectedModuleMessage == "Failed to generate module concepts: request failed"
UnknownModuleMessage == "An unknown error occurred while generating module concepts."
TypeErrorMessage == "Cannot read properties of undefined (reading 'length')"
InvalidTypeMessage == "Please upload a valid audio or video file."
TooLargeMessage == "File is too large. Please select a file smaller than 20 MB."

-----------------------------------------------------------------------------
(* The service: generateModuleData *)

\* generateModuleData(transcription), given what generateContent did:
\* resolves to the parsed JSON or throws an Error with a message
generateModuleData(text, resp) ==
    CASE resp.kind = "rejected" ->
            [ok |-> FALSE, message |-> RejectedModuleMessage, data |-> Shapeless]
      [] resp.kind = "rejectedValue" ->
            [ok |-> FALSE, message |-> UnknownModuleMessage, data |-> Shapeless]
      [] resp.kind = "empty" ->
            [ok |-> FALSE, message |-> EmptyModuleMessage, data |-> Shapeless]
      [] resp.kind = "malformed" ->
            [ok |-> FALSE, message |-> MalformedModuleMessage, data |-> Shapeless]
      [] resp.kind = "shapeless" ->
            [ok |-> TRUE, message |-> "", data |-> Shapeless]
      [] resp.kind = "lesson" ->
            [ok |-> TRUE, message |-> "", data |-> ModuleOf(resp.n, ExampleQuestions)]
      [] OTHER ->
            [ok |-> TRUE, message |-> "", data |-> Module(resp.n)]

-----------------------------------------------------------------------------
(* The service: the operations that make one generateContent request *)

\* A response text is a sequence of tokens: JSON punctuation, a number, a
\* string literal, an object that is a video record, white space, a word of
\* prose, and the two code fences
Whitespace == " "
Prose == "Here"
NumberToken == "1"
StringToken == "\"idea\""
VideoToken == "{\"videoId\":\"v\",\"title\":\"t\",\"channelName\":\"c\"}"
\* (a fence is three grave accents)
OpenFence == "fence json newline"
CloseFence == "fence"

\* the texts a response is drawn from
ServiceTexts ==
    {<<>>, <<Whitespace>>, <<Prose>>, <<"[", StringToken, "]">>,
     <<OpenFence, "[", StringToken, "]", CloseFence>>, <<"[", Prose, "]">>}

\* what ai.models.generateContent gave: a response with a text (undefined and
\* the empty string are both the empty sequence: every operation treats the
\* two alike), or a rejection with an Error or with some other thrown value
TextResponses ==
    {[rejected |-> FALSE, isError |-> FALSE, text |-> t] : t \in ServiceTexts}
    \cup {[rejected |-> TRUE, isError |-> e, text |-> <<>>] : e \in BOOLEAN}

RequestFailedText == <<"request failed">>

\* String.prototype.trim
RECURSIVE TrimStart(_)
TrimStart(t) == IF t # <<>> /\ Head(t) = Whitespace THEN TrimStart(Tail(t)) ELSE t

RECURSIVE TrimEnd(_)
TrimEnd(t) ==
    IF t # <<>> /\ t[Len(t)] = Whitespace THEN TrimEnd(SubSeq(t, 1, Len(t) - 1)) ELSE t

Trim(t) == TrimEnd(TrimStart(t))

\* the text without its white space, which JSON.parse skips between tokens
RECURSIVE Squeeze(_)
Squeeze(t) ==
    IF t = <<>> THEN <<>>
    ELSE IF Head(t) = Whitespace THEN Squeeze(Tail(t))
    ELSE <<Head(t)>> \o Squeeze(Tail(t))

\* the position after the digits that start at i: adjacent number tokens are
\* the digits of one number
RECURSIVE AfterDigits(_, _)
AfterDigits(t, i) ==
    IF i <= Len(t) /\ t[i] = NumberToken THEN AfterDigits(t, i + 1) ELSE i

\* JSON.parse on tokens: the position after the value that starts at i, 0 when
\* no value starts there
\* the position after the white space that starts at i
RECURSIVE SkipWhitespace(_, _)
SkipWhitespace(t, i) ==
    IF i <= Len(t) /\ t[i] = Whitespace THEN SkipWhitespace(t, i + 1) ELSE i

RECURSIVE ParseValue(_, _), ParseElements(_, _)
ParseValue(t, i) ==
    LET k == SkipWhitespace(t, i) IN
    IF k > Len(t) THEN 0
    ELSE IF t[k] = NumberToken THEN AfterDigits(t, k)
    ELSE IF t[k] \in {StringToken, VideoToken} THEN k + 1
    ELSE IF t[k] = "["
         THEN LET m == SkipWhitespace(t, k + 1) IN
              IF m <= Len(t) /\ t[m] = "]" THEN m + 1
              ELSE ParseElements(t, k + 1)
    ELSE 0

ParseElements(t, i) ==
    LET j == ParseValue(t, i)
        m == SkipWhitespace(t, j) IN
    IF j = 0 \/ m > Len(t) THEN 0
    ELSE IF t[m] = "]" THEN m + 1
    ELSE IF t[m] = "," THEN ParseElements(t, m + 1)
    ELSE 0

\* JSON.parse(text): the value (its tokens, white space apart) or a
\* SyntaxError
JSONParse(text) ==
    LET j == ParseValue(text, 1) IN
    IF j # 0 /\ SkipWhitespace(text, j) = Len(text) + 1
    THEN [ok |-> TRUE, value |-> Squeeze(text)]
    ELSE [ok |-> FALSE, value |-> <<>>]

\* what the try block of an operation throws before it has a text, Null when
\* it has one
NoText(resp, emptyText) ==
    IF resp.rejected THEN Some([isError |-> resp.isError, message |-> RequestFailedText])
    ELSE IF resp.text = <<>> THEN Some([isError |-> TRUE, message |-> emptyText])
    ELSE Null

\* the catch block that wraps the message of an Error
Wrapped(err, prefix, unknownText) ==
    IF err.isError THEN prefix \o err.message ELSE unknownText

Thrown(message) == [ok |-> FALSE, message |-> message, value |-> <<>>]
Returned(value) == [ok |-> TRUE, message |-> <<>>, value |-> value]

\* transcribeFile(file), given what generateContent did
transcribeFile(resp) ==
    LET emptyText == <<"Failed to transcribe the file. The transcription was empty.">>
        err == IF ~resp.rejected /\ Trim(resp.text) = <<>>
               THEN Some([isError |-> TRUE, message |-> emptyText])
               ELSE NoText(resp, emptyText) IN
    IF err # Null
    THEN Thrown(Wrapped(err[1], <<"Failed to transcribe file: ">>,
                        <<"An unknown error occurred during transcription.">>))
    ELSE Returned(resp.text)

\* getYouTubeTranscript(video)
getYouTubeTranscript(resp) ==
    IF NoText(resp, <<"Could not generate a plausible transcript for the video.">>) # Null
    THEN Thrown(<<"Failed to generate a transcript for the YouTube video.">>)
    ELSE Returned(<<"A plausible transcript/summary for">> \o resp.text)

\* processMedia's call: getYouTubeTranscript for a video, transcribeFile for a
\* file
Transcribe(media, resp) ==
    IF isYouTubeVideo(media) THEN getYouTubeTranscript(resp) ELSE transcribeFile(resp)

\* a response whose text is the words of a lecture
LectureResponse == [rejected |-> FALSE, isError |-> FALSE, text |-> <<Prose>>]

\* the text transcribeFile / getYouTubeTranscript resolve to for a media when
\* the response is that one
TranscriptOf(media) == Transcribe(media, LectureResponse).value

\* the responses the transcription request is followed with: a rejection with
\* an Error or with another value, no text, a blank text, a lecture
MediaResponses ==
    {r \in TextResponses : r.rejected \/ r.text \in {<<>>, <<Whitespace>>, <<Prose>>}}

\* evaluateSolution(conceptTitle, challenge, userSolution)
evaluateSolution(resp) ==
    LET err == NoText(resp, <<"The AI did not return any feedback.">>) IN
    IF err # Null
    THEN Thrown(Wrapped(err[1], <<"Failed to get feedback: ">>,
                        <<"An unknown error occurred while evaluating the solution.">>))
    ELSE Returned(resp.text)

\* summarizeAndUnderstand(transcript)
summarizeAndUnderstand(resp) ==
    IF NoText(resp, <<"AI failed to generate a summary.">>) # Null
    THEN Thrown(<<"Failed to generate summary and key concepts.">>)
    ELSE Returned(resp.text)

\* text.replace of the code fence at its start and of the one at its end
StripFences(t) ==
    LET a == IF t # <<>> /\ Head(t) = OpenFence THEN Tail(t) ELSE t IN
    IF a # <<>> /\ a[Len(a)] = CloseFence THEN SubSeq(a, 1, Len(a) - 1) ELSE a

\* generateArticleIdeas(summary, category): response.text.replace throws a
\* TypeError when there is no text; the value parsed is returned as it is
generateArticleIdeas(resp) ==
    LET ideasText == Trim(StripFences(resp.text)) IN
    IF resp.rejected \/ ideasText = <<>> \/ ~JSONParse(ideasText).ok
    THEN Thrown(<<"Failed to generate article ideas.">>)
    ELSE Returned(JSONParse(ideasText).value)

\* writeArticle(idea, transcript)
writeArticle(resp) ==
    IF NoText(resp, <<"AI failed to write the article.">>) # Null
    THEN Thrown(<<"Failed to write the article.">>)
    ELSE Returned(resp.text)

\* String.prototype.indexOf and lastIndexOf on tokens: 0-based, -1 when absent
IndexOf(t, token) ==
    IF \E i \in 1..Len(t) : t[i] = token
    THEN (CHOOSE i \in 1..Len(t) :
             t[i] = token /\ \A j \in 1..(i - 1) : t[j] # token) - 1
    ELSE -1

LastIndexOf(t, token) ==
    IF \E i \in 1..Len(t) : t[i] = token
    THEN (CHOOSE i \in 1..Len(t) :
             t[i] = token /\ \A j \in (i + 1)..Len(t) : t[j] # token) - 1
    ELSE -1

\* String.prototype.substring(start, end) for 0 <= start <= end
Substring(t, start, end) == SubSeq(t, start + 1, end)

NoResultsText == <<"The AI did not return any search results.">>
UnexpectedFormatText ==
    <<"The AI returned search results in an unexpected format. Please try rephrasing your search.">>
MalformedJsonText == <<"The AI returned malformed JSON data from search results.">>
SearchFailedPrefix == <<"Failed to search YouTube: ">>
SearchUnknownText == <<"An unknown error occurred during the YouTube search.">>

\* what the try block of searchYouTube throws, Null when it returns
SearchThrows(resp) ==
    LET text == resp.text
        startIndex == IndexOf(text, "[")
        endIndex == LastIndexOf(text, "]") IN
    IF NoText(resp, NoResultsText) # Null THEN NoText(resp, NoResultsText)
    ELSE IF startIndex = -1 \/ endIndex = -1 \/ endIndex < startIndex
         THEN Some([isError |-> TRUE, message |-> UnexpectedFormatText])
    ELSE IF ~JSONParse(Substring(text, startIndex, endIndex + 1)).ok
         THEN Some([isError |-> TRUE, message |-> MalformedJsonText])
    ELSE Null

\* searchYouTube(query): the value parsed from the first [ to the last ] is
\* returned as it is (as YouTubeVideo[] checks nothing at run time)
searchYouTube(resp) ==
    IF SearchThrows(resp) # Null
    THEN Thrown(Wrapped(SearchThrows(resp)[1], SearchFailedPrefix, SearchUnknownText))
    ELSE Returned(JSONParse(Substring(resp.text, IndexOf(resp.text, "["),
                                      LastIndexOf(resp.text, "]") + 1)).value)

-----------------------------------------------------------------------------
(* App: the handlers, as they change App's state *)

\* resetState without setError(null)
resetState_keepsError ==
    /\ view' = "idle"
    /\ selectedMedia' = Null
    /\ moduleStep' = "null"
    /\ moduleData' = Null
    /\ transcription' = Null
    /\ currentConceptIndex' = 0
    /\ quizAnswers' = EmptyAnswers
    /\ UNCHANGED error

\* resetState without setTranscription(null)
resetState_keepsTranscription ==
    /\ view' = "idle"
    /\ error' = Null
    /\ selectedMedia' = Null
    /\ moduleStep' = "null"
    /\ moduleData' = Null
    /\ currentConceptIndex' = 0
    /\ quizAnswers' = EmptyAnswers
    /\ UNCHANGED transcription

resetState ==
    /\ view' = "idle"
    /\ error' = Null
    /\ selectedMedia' = Null
    /\ moduleStep' = "null"
    /\ moduleData' = Null
    /\ transcription' = Null
    /\ currentConceptIndex' = 0
    /\ quizAnswers' = EmptyAnswers

\* resetModule without setCurrentConceptIndex(0)
resetModule_keepsIndex ==
    /\ moduleStep' = "null"
    /\ moduleData' = Null
    /\ quizAnswers' = EmptyAnswers
    /\ UNCHANGED <<view, error, selectedMedia, transcription, currentConceptIndex>>

resetModule ==
    /\ moduleStep' = "null"
    /\ moduleData' = Null
    /\ currentConceptIndex' = 0
    /\ quizAnswers' = EmptyAnswers
    /\ UNCHANGED <<view, error, selectedMedia, transcription>>

\* startGeneration without setQuizAnswers({})
startGeneration_keepsAnswers(text) ==
    /\ moduleStep' = "generating"
    /\ error' = Null
    /\ moduleData' = Null
    /\ currentConceptIndex' = 0
    /\ transcription' = Some(text)
    /\ pending' = Append(pending, [text |-> text, stale |-> FALSE])
    /\ UNCHANGED <<view, selectedMedia, quizAnswers>>

\* startGeneration up to its await: the state it sets and the request it issues
startGeneration(text) ==
    /\ moduleStep' = "generating"
    /\ error' = Null
    /\ moduleData' = Null
    /\ quizAnswers' = EmptyAnswers
    /\ currentConceptIndex' = 0
    /\ transcription' = Some(text)
    /\ pending' = Append(pending, [text |-> text, stale |-> FALSE])
    /\ UNCHANGED <<view, selectedMedia>>

\* the try block without the check of data.concepts.length
GenerationError_noZeroCheck(result) ==
    IF ~result.ok THEN Some(result.message)
    ELSE IF ~result.data.hasConcepts THEN Some(TypeErrorMessage)
    ELSE Null

\* the message of the error the try block of startGeneration throws for what
\* generateModuleData settled to, Null when it throws nothing
GenerationError(result) ==
    IF ~result.ok THEN Some(result.message)
    ELSE IF ~result.data.hasConcepts THEN Some(TypeErrorMessage)
    ELSE IF Len(result.data.concepts) = 0 THEN Some(ZeroConceptsMessage)
    ELSE Null

\* startGeneration after its await: no check that the request is still the
\* current one
startGenerationSettled(result) ==
    IF GenerationError(result) = Null
    THEN /\ moduleData' = Some(result.data)
         /\ moduleStep' = "pre-module"
         /\ UNCHANGED <<view, error, selectedMedia, transcription,
                        currentConceptIndex, quizAnswers>>
    ELSE /\ error' = GenerationError(result)
         /\ view' = "error"
         /\ UNCHANGED <<selectedMedia, moduleStep, moduleData, transcription,
                        currentConceptIndex, quizAnswers>>

handleFileSelect(file) ==
    /\ selectedMedia' = Some(file)
    /\ view' = "dashboard"
    /\ error' = Null
    /\ UNCHANGED <<moduleStep, moduleData, transcription, currentConceptIndex,
                   quizAnswers>>

handleVideoSelect(video) ==
    /\ selectedMedia' = Some(video)
    /\ view' = "dashboard"
    /\ error' = Null
    /\ UNCHANGED <<moduleStep, moduleData, transcription, currentConceptIndex,
                   quizAnswers>>

handleStartModule ==
    /\ moduleStep' = "learning"
    /\ UNCHANGED <<view, error, selectedMedia, moduleData, transcription,
                   currentConceptIndex, quizAnswers>>

\* an updater that keeps the answers of a concept as a list and pushes
AnswerUpdater_append(prev, conceptIndex, questionIndex, selected, isCorrect) ==
    LET row == IF conceptIndex \in DOMAIN prev THEN prev[conceptIndex] ELSE <<>>
        key == Cardinality(DOMAIN row)
        newRow == [q \in (DOMAIN row) \cup {key} |->
                     IF q = key
                     THEN [selected |-> selected, isCorrect |-> isCorrect]
                     ELSE row[q]]
    IN  [c \in (DOMAIN prev) \cup {conceptIndex} |->
           IF c = conceptIndex THEN newRow ELSE prev[c]]

\* the updater handleAnswerSubmit hands setQuizAnswers
AnswerUpdater(prev, conceptIndex, questionIndex, selected, isCorrect) ==
    LET row == IF conceptIndex \in DOMAIN prev THEN prev[conceptIndex] ELSE <<>>
        newRow == [q \in (DOMAIN row) \cup {questionIndex} |->
                     IF q = questionIndex
                     THEN [selected |-> selected, isCorrect |-> isCorrect]
                     ELSE row[q]]
    IN  [c \in (DOMAIN prev) \cup {conceptIndex} |->
           IF c = conceptIndex THEN newRow ELSE prev[c]]

handleAnswerSubmit(conceptIndex, questionIndex, selected, isCorrect) ==
    /\ quizAnswers' =
          AnswerUpdater(quizAnswers, conceptIndex, questionIndex, selected, isCorrect)
    /\ UNCHANGED <<view, error, selectedMedia, moduleStep, moduleData,
                   transcription, currentConceptIndex>>

\* the guard with concepts.length for concepts.length - 1
CanGoNext_pastEnd ==
    /\ moduleData # Null
    /\ currentConceptIndex < Len(moduleData[1].concepts)

\* the guard of handleNextConcept
CanGoNext ==
    /\ moduleData # Null
    /\ currentConceptIndex < Len(moduleData[1].concepts) - 1

handleNextConcept ==
    /\ currentConceptIndex' =
          IF CanGoNext THEN currentConceptIndex + 1 ELSE currentConceptIndex
    /\ UNCHANGED <<view, error, selectedMedia, moduleStep, moduleData,
                   transcription, quizAnswers>>

\* the guard of handlePrevConcept
CanGoPrev == currentConceptIndex > 0

handlePrevConcept ==
    /\ currentConceptIndex' =
          IF CanGoPrev THEN currentConceptIndex - 1 ELSE currentConceptIndex
    /\ UNCHANGED <<view, error, selectedMedia, moduleStep, moduleData,
                   transcription, quizAnswers>>

handleFinishModule ==
    /\ moduleStep' = "results"
    /\ UNCHANGED <<view, error, selectedMedia, moduleData, transcription,
                   currentConceptIndex, quizAnswers>>

-----------------------------------------------------------------------------
(* ResultsOverview: the score, with the arithmetic of IEEE 754 doubles *)

\* A positive double has 53 significand bits.  It is held here as
\* [e |-> the exponent of its leading bit, m |-> <<1, l1, l2, l3, l4>>]: the
\* leading bit, then the other 52 bits as four limbs of 13 bits; its value is
\* (1 + l1/2^13 + l2/2^26 + l3/2^39 + l4/2^52) * 2^e.  Only the values that
\* correctAnswers / total and its product with 100 take are needed.
LimbBits == 13
Limbs == 4

RECURSIVE Pow2(_)
Pow2(n) == IF n = 0 THEN 1 ELSE 2 * Pow2(n - 1)

LimbBase == Pow2(LimbBits)

\* limbs + 1 in the last place; the first element takes the carry
RECURSIVE Increment(_)
Increment(limbs) ==
    IF Len(limbs) = 1 THEN <<limbs[1] + 1>>
    ELSE IF limbs[Len(limbs)] + 1 < LimbBase
         THEN SubSeq(limbs, 1, Len(limbs) - 1) \o <<limbs[Len(limbs)] + 1>>
         ELSE Increment(SubSeq(limbs, 1, Len(limbs) - 1)) \o <<0>>

\* Round to nearest, ties to even: m is the 53 leading bits of an exact value
\* with leading exponent e, guard is its next bit and sticky says whether
\* any bit after that is set.
RoundToDouble(m, e, guard, sticky) ==
    LET up == guard = 1 /\ (sticky \/ m[Limbs + 1] % 2 = 1)
        inc == Increment(m)
    IN  IF ~up THEN [e |-> e, m |-> m]
        ELSE IF inc[1] = 2
             THEN [e |-> e + 1, m |-> <<1>> \o [i \in 1..Limbs |-> 0]]
             ELSE [e |-> e, m |-> inc]

\* the next n limbs of the quotient r / t (r < t), then the remainder left
RECURSIVE QuotientLimbs(_, _, _)
QuotientLimbs(r, t, n) ==
    IF n = 0 THEN [limbs |-> <<>>, rem |-> r]
    ELSE LET tail == QuotientLimbs((r * LimbBase) % t, t, n - 1)
         IN  [limbs |-> <<(r * LimbBase) \div t>> \o tail.limbs, rem |-> tail.rem]

\* the least k with c * 2^k >= t
RECURSIVE ShiftToOne(_, _)
ShiftToOne(c, t) == IF c >= t THEN 0 ELSE 1 + ShiftToOne(2 * c, t)

\* correctAnswers / total as a double, for 0 < c <= t
DoubleDivide(c, t) ==
    LET k == ShiftToOne(c, t)
        q == QuotientLimbs(c * Pow2(k) - t, t, Limbs)
        guard == IF 2 * q.rem >= t THEN 1 ELSE 0
    IN  RoundToDouble(<<1>> \o q.limbs, 0 - k, guard, 2 * q.rem - guard * t > 0)

\* limbs * factor, limb by limb from the last; the first element of the
\* result is not reduced
RECURSIVE TimesSmall(_, _, _)
TimesSmall(limbs, factor, carry) ==
    IF Len(limbs) = 1 THEN <<limbs[1] * factor + carry>>
    ELSE LET v == limbs[Len(limbs)] * factor + carry
         IN  TimesSmall(SubSeq(limbs, 1, Len(limbs) - 1), factor, v \div LimbBase)
                 \o <<v % LimbBase>>

\* limbs shifted right by s bits (s < 13); the bits shifted out are lost
ShiftRight(limbs, s) ==
    [i \in 1..Len(limbs) |->
        (IF i = 1 THEN 0 ELSE (limbs[i - 1] % Pow2(s)) * Pow2(LimbBits - s))
        + (limbs[i] \div Pow2(s))]

\* x * 100 as a double: the exact product has 6 or 7 bits more than x
DoubleTimes100(x) ==
    LET product == TimesSmall(x.m, 100, 0)
        s == IF product[1] >= 128 THEN 7 ELSE 6
        dropped == product[Limbs + 1] % Pow2(s)
    IN  RoundToDouble(ShiftRight(product, s), x.e + s,
                      dropped \div Pow2(s - 1), dropped % Pow2(s - 1) > 0)

\* Math.round of a positive double below 2^13: floor(x + 0.5)
MathRound(x) ==
    IF x.e < 0 - 1 THEN 0
    ELSE IF x.e = 0 - 1 THEN 1
    ELSE Pow2(x.e) + (x.m[2] \div Pow2(LimbBits - x.e))
         + ((x.m[2] \div Pow2(LimbBits - x.e - 1)) % 2)

\* total > 0 ? Math.round((correctAnswers / total) * 100) : 0
Percentage(correctAnswers, total) ==
    IF total > 0
    THEN IF correctAnswers = 0 THEN 0
         ELSE MathRound(DoubleTimes100(DoubleDivide(correctAnswers, total)))
    ELSE 0

\* answers[conceptIndex] && answers[conceptIndex][questionIndex]?.isCorrect
\* the count leaving out the first question of each quiz
CountsAsCorrect_skipsFirst(answers, conceptIndex, questionIndex) ==
    /\ questionIndex > 0
    /\ conceptIndex \in DOMAIN answers
    /\ questionIndex \in DOMAIN answers[conceptIndex]
    /\ answers[conceptIndex][questionIndex].isCorrect

\* the test of ResultsOverview if any correct entry of the concept's row
\* counted for the question
CountsAsCorrect_anyEntry(answers, conceptIndex, questionIndex) ==
    /\ conceptIndex \in DOMAIN answers
    /\ \E q \in DOMAIN answers[conceptIndex] : answers[conceptIndex][q].isCorrect

CountsAsCorrect(answers, conceptIndex, questionIndex) ==
    /\ conceptIndex \in DOMAIN answers
    /\ questionIndex \in DOMAIN answers[conceptIndex]
    /\ answers[conceptIndex][questionIndex].isCorrect

\* the useMemo of ResultsOverview: one pass over every question of every concept
ResultsOverview(concepts, answers) ==
    LET questions == UNION {{<<c, q>> : q \in 0..(Len(concepts[c + 1].quiz) - 1)} :
                               c \in 0..(Len(concepts) - 1)}
        correctAnswers == Cardinality({x \in questions :
                                          CountsAsCorrect(answers, x[1], x[2])})
        total == Cardinality(questions)
    IN  [score |-> correctAnswers,
         totalQuestions |-> total,
         percentage |-> Percentage(correctAnswers, total)]

-----------------------------------------------------------------------------
(* What is rendered *)

\* renderContent: FileUpload is rendered in the idle view
FileUploadMounted == view = "idle"

\* renderContent: selectedMedia && <AnalysisView ...> in the dashboard view
AnalysisMounted == view = "dashboard" /\ selectedMedia # Null

\* renderModuleContent, one case per module step
PreQuestMounted == AnalysisMounted /\ moduleStep = "pre-module" /\ moduleData # Null
QuestMounted == AnalysisMounted /\ moduleStep = "learning" /\ moduleData # Null
ResultsMounted == AnalysisMounted /\ moduleStep = "results" /\ moduleData # Null

\* QuestView hands ConceptCard concepts[currentConceptIndex]; past the end that
\* is undefined and ConceptCard throws reading concept.image_prompt while it
\* renders.  No error boundary exists, so React unmounts the whole tree.
RenderThrows ==
    /\ QuestMounted
    /\ currentConceptIndex >= Len(moduleData[1].concepts)

\* QuestView.isLastConcept taken on the first chapter instead of the last
isLastConcept_firstChapter == currentConceptIndex = 0

\* QuestView
isLastConcept == currentConceptIndex = Len(moduleData[1].concepts) - 1

currentConcept == moduleData[1].concepts[currentConceptIndex + 1]

\* ConceptCard: answers?.[conceptIndex]?.[i], Null for undefined
answerData(answers, conceptIndex, i) ==
    IF conceptIndex \in DOMAIN answers /\ i \in DOMAIN answers[conceptIndex]
    THEN Some(answers[conceptIndex][i])
    ELSE Null

\* QuizItem.isAnswered if an entry did not lock its question
isAnswered_never(answers, conceptIndex, i) == FALSE

\* QuizItem
isAnswered(answers, conceptIndex, i) == answerData(answers, conceptIndex, i) # Null

-----------------------------------------------------------------------------
(* Bookkeeping shared by the actions *)

\* lastOp after a handler ran
Ran(name, args) ==
    lastOp' = [name |-> name, args |-> args,
               changed |-> moduleFields' # moduleFields]

\* every request in flight has now seen a reset
MarkStale(reqs) == [i \in 1..Len(reqs) |-> [reqs[i] EXCEPT !.stale = TRUE]]

RemoveAt(seq, i) == SubSeq(seq, 1, i - 1) \o SubSeq(seq, i + 1, Len(seq))

\* AnalysisView's useState defaults for the tools
ToolDefaults ==
    [summary |-> Null, isSummarizing |-> FALSE, articleIdeas |-> Null,
     isGeneratingIdeas |-> FALSE, ideaCategory |-> Null,
     selectedArticleIdea |-> Null, articleContent |-> Null,
     isWritingArticle |-> FALSE, abandoned |-> <<>>]

\* the requests the handlers of the mounted AnalysisView are awaiting
ToolRequests(t) ==
    (IF t.isSummarizing THEN <<"summarizeAndUnderstand">> ELSE <<>>)
    \o (IF t.isGeneratingIdeas THEN <<"generateArticleIdeas">> ELSE <<>>)
    \o (IF t.isWritingArticle THEN <<"writeArticle">> ELSE <<>>)

\* no generateImage call of ConceptCard's effect
NoCardImage == [pc |-> "none", retries |-> 0, backoff |-> 0, requests |-> 0]

\* ConceptCard's useState defaults.  Besides its state: prompt is the
\* image_prompt its image effect last ran for (the effect's dependency),
\* image the generateImage call of that run, stale the calls of earlier runs,
\* whose isMounted the cleanup has set to false; imageOf is the prompt
\* imageUrl was generated from, submittedOn the chapter whose challenge the
\* evaluation in flight was submitted for and feedbackOn the chapter whose
\* challenge feedback answers.
CardDefaults ==
    [mounted |-> FALSE, imageUrl |-> Null, isImageLoading |-> FALSE,
     imageError |-> Null, solution |-> <<>>, isEvaluating |-> FALSE,
     feedback |-> Null, evaluationError |-> Null, image |-> NoCardImage,
     prompt |-> Null, stale |-> <<>>, imageOf |-> Null, submittedOn |-> Null,
     feedbackOn |-> Null]

\* the loops of a component after it unmounted
Unmounted(loops) == [j \in 1..Len(loops) |-> [loops[j] EXCEPT !.mounted = FALSE]]

\* generateImage(prompt of item) up to its first await
generateImage(item) ==
    /\ giItem' = item
    /\ retries' = 3
    /\ backoff' = 1000
    /\ giPc' = "generateImages"
    /\ giRequests' = 1
    /\ giDelays' = <<>>
    /\ giThrown' = Null

\* PreQuestView
visualTask == moduleData[1].visual_task
isTaskComplete == Len(matchedPairs) = Len(visualTask)

\* the fetchImages loop of the call in progress, as a loop that goes on after
\* the effect ran again; a loop that has ended leaves nothing behind
Superseded(mounted) ==
    IF giPc \in {"generateImages", "delay"}
    THEN Append(orphaned, [pc |-> giPc, item |-> giItem, retries |-> retries,
                           backoff |-> backoff, items |-> giItems,
                           mounted |-> mounted])
    ELSE orphaned

\* useEffect(fetchImages, [visualTask]): the three setters, then the loop up to
\* its first await
fetchImages ==
    /\ isLoading' = TRUE
    /\ pqError' = Null
    /\ imageUrls' = {}
    /\ giItems' = Len(moduleData'[1].visual_task)
    /\ generateImage(1)

\* the cleanup of ConceptCard's image effect sets isMounted of the run to
\* false; its generateImage call, if it has not ended, goes on
CleanedUp(c) ==
    IF c.image.pc \in {"generateImages", "delay"}
    THEN Append(c.stale, c.image)
    ELSE c.stale

\* ConceptCard c after a render with concept and its image effect
\* (dependency concept.image_prompt): nothing if the prompt is the one of the
\* last run; else the cleanup of the last run, then generate up to its early
\* return (no prompt) or up to the await in generateImage
ImageEffect(c, concept) ==
    IF c.prompt = Some(concept.image_prompt) THEN c
    ELSE IF concept.image_prompt = <<>>
    THEN [c EXCEPT !.prompt = Some(concept.image_prompt),
                   !.stale = CleanedUp(c),
                   !.image = NoCardImage]
    ELSE [c EXCEPT !.prompt = Some(concept.image_prompt),
                   !.stale = CleanedUp(c),
                   !.isImageLoading = TRUE,
                   !.imageError = Null,
                   !.imageUrl = Null,
                   !.imageOf = Null,
                   !.image = [pc |-> "generateImages", retries |-> 3,
                              backoff |-> 1000, requests |-> 1]]

\* ConceptCard after its first render and its effect; QuestView hands it
\* concepts[currentConceptIndex], and past the end the render throws
ConceptCardMounts ==
    IF currentConceptIndex < Len(moduleData[1].concepts)
    THEN ImageEffect([CardDefaults EXCEPT !.mounted = TRUE], currentConcept)
    ELSE CardDefaults

\* ResultsOverview after a step: rendered with the module's concepts and the
\* answers, its useMemo holds the score
Rendered ==
    results' = IF /\ view' = "dashboard" /\ selectedMedia' # Null
                  /\ moduleStep' = "results" /\ moduleData' # Null
               THEN Some(ResultsOverview(moduleData'[1].concepts, quizAnswers'))
               ELSE Null

\* The local state of FileUpload and AnalysisView after a step: a component
\* that is not rendered holds no state, and one that mounts starts from its
\* useState defaults; AnalysisView's mount effect (processMedia) starts the
\* transcription at once.  fu is FileUpload's error if it stays mounted.  A
\* render that throws unmounts every component.  The requests the tools of an
\* unmounted AnalysisView await go on, at most MaxInFlight of them.
Mounting(fu) ==
    /\ fuError' = IF view' = "idle" THEN fu ELSE Null
    /\ IF (AnalysisMounted /\ ~RenderThrows)'
       THEN IF AnalysisMounted /\ ~RenderThrows
            THEN UNCHANGED <<localTranscription, isTranscribing, avError, tools>>
            ELSE /\ localTranscription' = Null
                 /\ isTranscribing' = TRUE
                 /\ avError' = Null
                 /\ tools' = [ToolDefaults EXCEPT !.abandoned = tools.abandoned]
       ELSE /\ localTranscription' = Null
            /\ isTranscribing' = FALSE
            /\ avError' = Null
            /\ Len(tools.abandoned \o ToolRequests(tools)) <= MaxInFlight
            /\ tools' = [ToolDefaults EXCEPT
                            !.abandoned = tools.abandoned \o ToolRequests(tools)]

\* PreQuestView after a step.  fresh says that setModuleData was handed a
\* newly parsed module, whose visual_task is an array PreQuestView has not
\* seen.  On its mount, and when it stays mounted and is given a new array,
\* the fetchImages effect runs while the loop of the run before goes on; when
\* it is unmounted its state is lost and its loops go on, setting nothing.
\* At most MaxInFlight loops of earlier runs are followed.
PreQuestRenders(fresh) ==
    IF PreQuestMounted'
    THEN IF PreQuestMounted /\ ~fresh
         THEN UNCHANGED <<preQuestVars, imageVars>>
         ELSE /\ fetchImages
              /\ matchedPairs' = IF PreQuestMounted THEN matchedPairs ELSE <<>>
              /\ Len(Superseded(PreQuestMounted)) <= MaxInFlight
              /\ orphaned' = Superseded(PreQuestMounted)
    ELSE /\ imageUrls' = {}
         /\ isLoading' = TRUE
         /\ pqError' = Null
         /\ matchedPairs' = <<>>
         /\ orphaned' = Unmounted(orphaned)
         /\ UNCHANGED <<giPc, giItem, retries, backoff, giRequests, giDelays,
                        giThrown, giItems>>

\* QuestView's ConceptCard after a step: it mounts with QuestView, is
\* rendered anew with the concept of the chapter while QuestView stays, and
\* is unmounted with it, its state lost.  At most MaxStale calls of earlier
\* runs of its image effect are followed.
ConceptCardRenders ==
    IF (QuestMounted /\ ~RenderThrows)'
    THEN IF QuestMounted /\ ~RenderThrows /\ card.mounted
         THEN /\ Len(ImageEffect(card, currentConcept').stale) <= MaxStale
              /\ card' = ImageEffect(card, currentConcept')
         ELSE card' = ConceptCardMounts'
    ELSE card' = CardDefaults

\* the render after a handler ran, with the effects of what it mounts
Renders(fu, fresh) ==
    /\ Rendered
    /\ Mounting(fu)
    /\ PreQuestRenders(fresh)
    /\ ConceptCardRenders
    /\ UNCHANGED svc

Components(fu) == Renders(fu, FALSE)

-----------------------------------------------------------------------------
(* FileUpload *)

\* handleFileChange: the type check
IsAudioOrVideo(file) ==
    StartsWith(file.type, AudioPrefix) \/ StartsWith(file.type, VideoPrefix)

\* the size check with >= for >
IsTooLarge_atCeiling(file) == file.size >= MAX_FILE_SIZE_BYTES

\* handleFileChange: the size check
IsTooLarge(file) == file.size > MAX_FILE_SIZE_BYTES

\* handleFileChange(files): files is a FileList, <<>> when null or empty
handleFileChange(files) ==
    /\ FileUploadMounted
    /\ IF files = <<>>
       THEN UNCHANGED appVars /\ Components(Null)
       ELSE LET file == files[1] IN
            IF ~IsAudioOrVideo(file)
            THEN UNCHANGED appVars /\ Components(Some(InvalidTypeMessage))
            ELSE IF IsTooLarge(file)
            THEN UNCHANGED appVars /\ Components(Some(TooLargeMessage))
            ELSE handleFileSelect(file) /\ Components(Null)
    /\ UNCHANGED pending
    /\ Ran("handleFileChange", files)

\* handleSelectVideo: a video of the search results is selected
handleSelectVideo(video) ==
    /\ FileUploadMounted
    /\ handleVideoSelect(video)
    /\ Components(Null)
    /\ UNCHANGED pending
    /\ Ran("handleSelectVideo", <<video>>)

-----------------------------------------------------------------------------
(* AnalysisView *)

\* processMedia after its await: the transcription request of the mounted
\* AnalysisView settles (a request of an unmounted one sets no state)
processMediaSettled(resp) ==
    /\ AnalysisMounted
    /\ ~RenderThrows
    /\ isTranscribing
    /\ LET outcome == Transcribe(selectedMedia[1], resp) IN
       IF outcome.ok
       THEN /\ localTranscription' = Some(outcome.value)
            /\ UNCHANGED avError
       ELSE /\ avError' = Some(outcome.message)
            /\ UNCHANGED localTranscription
    /\ isTranscribing' = FALSE
    /\ UNCHANGED <<appVars, pending, fuError, results, preQuestVars, imageVars,
                   serviceVars>>
    /\ Ran("processMedia", <<resp>>)

\* the Create Learning Module button: rendered while moduleStep is null,
\* disabled until the transcription is there; clicked while fewer than most
\* requests are in flight
CreateModule(most) ==
    /\ AnalysisMounted
    /\ moduleStep = "null"
    /\ localTranscription # Null
    /\ Len(pending) < most
    /\ startGeneration(localTranscription[1])
    /\ Components(fuError)
    /\ Ran("startGeneration", localTranscription)

ClickCreateModule == CreateModule(MaxInFlight)

\* the request pending[i] completes with resp.  App is the root component and
\* stays mounted unless a render threw; after that the call completes with no
\* state left to set.
GenerationSettles(i, resp) ==
    /\ i \in 1..Len(pending)
    /\ pending' = RemoveAt(pending, i)
    /\ IF RenderThrows
       THEN UNCHANGED <<appVars, localVars, results, preQuestVars, imageVars,
                        serviceVars>>
       ELSE /\ startGenerationSettled(generateModuleData(pending[i].text, resp))
            /\ Renders(fuError,
                       GenerationError(generateModuleData(pending[i].text, resp)) = Null)
    /\ Ran("startGenerationSettled", <<resp, pending[i].stale>>)

\* the Reset Module button: rendered while moduleStep is not null
ClickResetModule ==
    /\ AnalysisMounted
    /\ ~RenderThrows
    /\ moduleStep # "null"
    /\ resetModule
    /\ pending' = MarkStale(pending)
    /\ Components(fuError)
    /\ Ran("resetModule", <<>>)

\* Start New / Back to Upload (AnalysisView), Start a New Analysis
\* (ResultsOverview), Try Again (the error view)
ClickResetApp ==
    /\ AnalysisMounted \/ view = "error"
    /\ ~RenderThrows
    /\ resetState
    /\ pending' = MarkStale(pending)
    /\ Components(fuError)
    /\ Ran("resetState", <<>>)

-----------------------------------------------------------------------------
(* PreQuestView, QuestView, QuizItem *)

\* the Begin Learning Module button: disabled={!isTaskComplete && !error}
ClickBeginModule ==
    /\ PreQuestMounted
    /\ isTaskComplete \/ pqError # Null
    /\ handleStartModule
    /\ UNCHANGED pending
    /\ Components(fuError)
    /\ Ran("handleStartModule", <<>>)

\* Next Chapter: rendered unless this is the last concept
ClickNext ==
    /\ QuestMounted
    /\ ~RenderThrows
    /\ ~isLastConcept
    /\ handleNextConcept
    /\ UNCHANGED pending
    /\ Components(fuError)
    /\ Ran("handleNextConcept", <<>>)

\* Previous: disabled on the first concept
ClickPrev ==
    /\ QuestMounted
    /\ ~RenderThrows
    /\ currentConceptIndex # 0
    /\ handlePrevConcept
    /\ UNCHANGED pending
    /\ Components(fuError)
    /\ Ran("handlePrevConcept", <<>>)

\* See My Results: rendered on the last concept
ClickFinish ==
    /\ QuestMounted
    /\ ~RenderThrows
    /\ isLastConcept
    /\ handleFinishModule
    /\ UNCHANGED pending
    /\ Components(fuError)
    /\ Ran("handleFinishModule", <<>>)

\* handleSelectOption if every choice were recorded as correct
handleSelectOption_alwaysCorrect(i, option) ==
    /\ QuestMounted
    /\ ~RenderThrows
    /\ i \in 0..(Len(currentConcept.quiz) - 1)
    /\ LET question == currentConcept.quiz[i + 1] IN
       /\ Len(question.options) > 0
       /\ option \in {question.options[k] : k \in 1..Len(question.options)}
       /\ ~isAnswered(quizAnswers, currentConceptIndex, i)
       /\ handleAnswerSubmit(currentConceptIndex, i, option, TRUE)
       /\ Ran("handleAnswerSubmit", <<currentConceptIndex, i, option, TRUE>>)
    /\ UNCHANGED pending
    /\ Components(fuError)

\* QuizItem.handleSelectOption(option) on question i of the current concept
handleSelectOption(i, option) ==
    /\ QuestMounted
    /\ ~RenderThrows
    /\ i \in 0..(Len(currentConcept.quiz) - 1)
    /\ LET question == currentConcept.quiz[i + 1] IN
       /\ Len(question.options) > 0
       /\ option \in {question.options[k] : k \in 1..Len(question.options)}
       /\ ~isAnswered(quizAnswers, currentConceptIndex, i)
       /\ handleAnswerSubmit(currentConceptIndex, i, option, option = question.answer)
       /\ Ran("handleAnswerSubmit",
              <<currentConceptIndex, i, option, option = question.answer>>)
    /\ UNCHANGED pending
    /\ Components(fuError)

\* handleRevealShortAnswer if revealing did not count as getting it right
handleRevealShortAnswer_noCredit(i) ==
    /\ QuestMounted
    /\ ~RenderThrows
    /\ i \in 0..(Len(currentConcept.quiz) - 1)
    /\ LET question == currentConcept.quiz[i + 1] IN
       /\ Len(question.options) = 0
       /\ ~isAnswered(quizAnswers, currentConceptIndex, i)
       /\ handleAnswerSubmit(currentConceptIndex, i, question.answer, FALSE)
       /\ Ran("handleAnswerSubmit", <<currentConceptIndex, i, question.answer, FALSE>>)
    /\ UNCHANGED pending
    /\ Components(fuError)

\* QuizItem.handleRevealShortAnswer on question i of the current concept
handleRevealShortAnswer(i) ==
    /\ QuestMounted
    /\ ~RenderThrows
    /\ i \in 0..(Len(currentConcept.quiz) - 1)
    /\ LET question == currentConcept.quiz[i + 1] IN
       /\ Len(question.options) = 0
       /\ ~isAnswered(quizAnswers, currentConceptIndex, i)
       /\ handleAnswerSubmit(currentConceptIndex, i, question.answer, TRUE)
       /\ Ran("handleAnswerSubmit", <<currentConceptIndex, i, question.answer, TRUE>>)
    /\ UNCHANGED pending
    /\ Components(fuError)

-----------------------------------------------------------------------------
(* PreQuestView and generateImage *)

\* PreQuestView's useState defaults (lines 21-25), also held while it is not
\* rendered
NoPreQuest ==
    /\ imageUrls = {}
    /\ isLoading = TRUE
    /\ pqError = Null
    /\ matchedPairs = <<>>

\* no generateImage call has been made
NoImageCall ==
    /\ giPc = "none"
    /\ giItem = 0
    /\ retries = 0
    /\ backoff = 0
    /\ giRequests = 0
    /\ giDelays = <<>>
    /\ giThrown = Null
    /\ giItems = 0
    /\ orphaned = <<>>

\* no service call is followed
NoCall == [op |-> "none", pc |-> "none", requests |-> 0, ok |-> FALSE,
           message |-> <<>>, value |-> <<>>]

\* no tool was used, ConceptCard is not mounted, no service call is followed
NoService ==
    /\ tools = ToolDefaults
    /\ card = CardDefaults
    /\ svc = NoCall

\* a message as the sequence of its words, so that includes('429') is computed
RateLimitText == <<"429", "Too", "Many", "Requests">>
ServerErrorText == <<"500", "Internal", "error">>
NoImagesText == <<"Image", "generation", "failed,", "no", "images", "returned.">>
FailedPrefix == <<"Failed", "to", "generate", "image:">>
UnknownErrorText ==
    <<"An", "unknown", "error", "occurred", "during", "image", "generation.">>
RetriesExhaustedText ==
    <<"Failed", "to", "generate", "image", "after", "multiple", "retries", "due",
      "to", "rate", "limiting.">>
CouldNotLoadMessage == "Could not load the visual task images. You can still proceed."

\* String.prototype.includes, on words
Includes(message, word) == \E i \in 1..Len(message) : message[i] = word

\* what ai.models.generateImages gave generateImage: a response with so many
\* images, or a rejection with an Error or with some other thrown value
ImageResponses ==
    {[rejected |-> FALSE, images |-> n, isError |-> FALSE, message |-> <<>>] :
        n \in {0, 1}}
    \cup {[rejected |-> TRUE, images |-> 0, isError |-> e, message |-> m] :
             e \in BOOLEAN, m \in {RateLimitText, ServerErrorText}}

\* what the try block of generateImage throws for a response, Null when it
\* returns the data URL
TryThrows(resp) ==
    IF resp.rejected THEN Some([isError |-> resp.isError, message |-> resp.message])
    ELSE IF resp.images = 0 THEN Some([isError |-> TRUE, message |-> NoImagesText])
    ELSE Null

\* the catch block retrying after any Error
ShouldRetry_anyError(err) ==
    /\ err.isError
    /\ retries > 0

\* the condition of the catch block: a rate-limit signal, retries left
ShouldRetry(err) ==
    /\ err.isError
    /\ Includes(err.message, "429")
    /\ retries > 0

\* the message of the Error the catch block throws otherwise
Rethrown(err) == IF err.isError THEN FailedPrefix \o err.message ELSE UnknownErrorText

\* fetchImages after generateImage returned the URL of item giItem: the URL is
\* stored (a state setter of an unmounted component does nothing) and the
\* loop goes on to the next item, or ends and the finally block runs
fetchImagesGotUrl ==
    /\ imageUrls' = IF PreQuestMounted THEN imageUrls \cup {giItem} ELSE imageUrls
    /\ IF giItem < giItems
       THEN /\ generateImage(giItem + 1)
            /\ UNCHANGED isLoading
       ELSE /\ giPc' = "returned"
            /\ isLoading' = IF PreQuestMounted THEN FALSE ELSE isLoading
            /\ UNCHANGED <<giItem, retries, backoff, giRequests, giDelays, giThrown>>
    /\ UNCHANGED <<pqError, matchedPairs>>

\* fetchImages if its catch block set no error
fetchImagesCaught_silent(message) ==
    /\ giPc' = "thrown"
    /\ giThrown' = Some(message)
    /\ isLoading' = IF PreQuestMounted THEN FALSE ELSE isLoading
    /\ UNCHANGED <<pqError, imageUrls, matchedPairs, giItem, giRequests, giDelays>>
    /\ UNCHANGED appVars

\* fetchImages if its catch block set App's state instead of the component's
fetchImagesCaught_topLevel(message) ==
    /\ giPc' = "thrown"
    /\ giThrown' = Some(message)
    /\ error' = Some(CouldNotLoadMessage)
    /\ view' = "error"
    /\ isLoading' = IF PreQuestMounted THEN FALSE ELSE isLoading
    /\ UNCHANGED <<pqError, imageUrls, matchedPairs, giItem, giRequests, giDelays>>
    /\ UNCHANGED <<selectedMedia, moduleStep, moduleData, transcription,
                   currentConceptIndex, quizAnswers>>

\* fetchImages after generateImage threw: the catch and the finally block
fetchImagesCaught(message) ==
    /\ giPc' = "thrown"
    /\ giThrown' = Some(message)
    /\ pqError' = IF PreQuestMounted THEN Some(CouldNotLoadMessage) ELSE pqError
    /\ isLoading' = IF PreQuestMounted THEN FALSE ELSE isLoading
    /\ UNCHANGED <<imageUrls, matchedPairs, giItem, giRequests, giDelays>>
    /\ UNCHANGED appVars

\* the generateImages request of the call in progress settles with resp
generateImagesSettled(resp) ==
    /\ giPc = "generateImages"
    /\ IF TryThrows(resp) = Null
       THEN fetchImagesGotUrl /\ UNCHANGED appVars
       ELSE IF ShouldRetry(TryThrows(resp)[1])
            THEN /\ giPc' = "delay"
                 /\ giDelays' = Append(giDelays, backoff)
                 /\ UNCHANGED <<giItem, retries, backoff, giRequests, giThrown,
                                preQuestVars, appVars>>
            ELSE /\ fetchImagesCaught(Rethrown(TryThrows(resp)[1]))
                 /\ UNCHANGED <<retries, backoff>>
    /\ UNCHANGED <<pending, localVars, results, giItems, orphaned, serviceVars>>
    /\ Ran("generateImagesSettled", <<resp>>)

\* the delay of the catch block is over: retries--, backoff *= 2, and the
\* while condition decides between the next request and the final throw
delayElapsed ==
    /\ giPc = "delay"
    /\ retries' = retries - 1
    /\ backoff' = backoff * 2
    /\ IF retries - 1 > 0
       THEN /\ giPc' = "generateImages"
            /\ giRequests' = giRequests + 1
            /\ UNCHANGED <<giItem, giDelays, giThrown, preQuestVars, appVars>>
       ELSE fetchImagesCaught(RetriesExhaustedText)
    /\ UNCHANGED <<pending, localVars, results, giItems, orphaned, serviceVars>>
    /\ Ran("delay", <<>>)

\* visualTask.find(item => item.image_prompt === imagePrompt): the first item
\* with that prompt, Null for undefined
find(task, imagePrompt) ==
    LET hits == {k \in 1..Len(task) : task[k].image_prompt = imagePrompt} IN
    IF hits = {} THEN Null
    ELSE Some(task[CHOOSE k \in hits : \A h \in hits : k <= h])

\* the terms PreQuestView renders as draggable items and the prompts of the
\* images it renders as drop targets
Terms ==
    IF moduleData = Null THEN {}
    ELSE {visualTask[k].term : k \in 1..Len(visualTask)}

ImagePrompts ==
    IF moduleData = Null THEN {}
    ELSE {visualTask[k].image_prompt : k \in 1..Len(visualTask)}

\* handleDrop(e, imagePrompt) with the dragged term in e.dataTransfer.  The
\* images are drop targets once the grid is rendered, and a term that is
\* matched is no longer draggable.
handleDrop(droppedTerm, imagePrompt) ==
    /\ PreQuestMounted
    /\ (~isLoading \/ imageUrls # {}) /\ pqError = Null
    /\ ~Includes(matchedPairs, droppedTerm)
    /\ LET correctTerm == find(visualTask, imagePrompt) IN
       matchedPairs' = IF /\ correctTerm # Null
                          /\ droppedTerm = correctTerm[1].term
                          /\ ~Includes(matchedPairs, droppedTerm)
                       THEN Append(matchedPairs, droppedTerm)
                       ELSE matchedPairs
    /\ UNCHANGED <<imageUrls, isLoading, pqError, imageVars>>
    /\ UNCHANGED <<appVars, pending, localVars, results, serviceVars>>
    /\ Ran("handleDrop", <<droppedTerm, imagePrompt>>)

-----------------------------------------------------------------------------
(* The application *)

Init ==
    /\ view = "idle"
    /\ error = Null
    /\ selectedMedia = Null
    /\ moduleStep = "null"
    /\ moduleData = Null
    /\ transcription = Null
    /\ currentConceptIndex = 0
    /\ quizAnswers = EmptyAnswers
    /\ pending = <<>>
    /\ fuError = Null
    /\ localTranscription = Null
    /\ isTranscribing = FALSE
    /\ avError = Null
    /\ results = Null
    /\ NoPreQuest
    /\ NoImageCall
    /\ NoService
    /\ lastOp = [name |-> "mount", args |-> <<>>, changed |-> FALSE]

-----------------------------------------------------------------------------
(* States of a module in progress, from which parts of the program are run *)

\* the state Spec reaches for an uploaded file whose module was generated:
\* step is the module step, index the current concept, answers the answers
ModuleInProgress(module, step, index, answers) ==
    /\ view = "dashboard"
    /\ error = Null
    /\ selectedMedia = Some(File(AudioMpeg, MAX_FILE_SIZE_BYTES))
    /\ moduleStep = step
    /\ moduleData = Some(module)
    /\ transcription = Some(TranscriptOf(File(AudioMpeg, MAX_FILE_SIZE_BYTES)))
    /\ currentConceptIndex = index
    /\ quizAnswers = answers
    /\ pending = <<>>
    /\ fuError = Null
    /\ localTranscription = Some(TranscriptOf(File(AudioMpeg, MAX_FILE_SIZE_BYTES)))
    /\ isTranscribing = FALSE
    /\ avError = Null
    /\ results = Null
    /\ lastOp = [name |-> "mount", args |-> <<>>, changed |-> FALSE]

\* the fetchImages call of PreQuestView right after its mount
FirstImageCall ==
    /\ giPc = "generateImages"
    /\ giItem = 1
    /\ retries = 3
    /\ backoff = 1000
    /\ giRequests = 1
    /\ giDelays = <<>>
    /\ giThrown = Null
    /\ giItems = Len(visualTask)
    /\ orphaned = <<>>

\* the fetchImages call of PreQuestView once it has loaded every image
ImagesLoaded ==
    /\ giPc = "returned"
    /\ giItem = Len(visualTask)
    /\ retries = 3
    /\ backoff = 1000
    /\ giRequests = 1
    /\ giDelays = <<>>
    /\ giThrown = Null
    /\ giItems = Len(visualTask)
    /\ orphaned = <<>>

\* the components below AnalysisView for a module in progress that has just
\* reached its step: PreQuestView after its mount in the pre-module step;
\* QuestView with its ConceptCard after their mount in the learning step,
\* which Begin Learning Module led to once the images were loaded and matched
ModuleRendered ==
    /\ NoPreQuest
    /\ IF moduleStep = "pre-module" THEN FirstImageCall ELSE ImagesLoaded
    /\ tools = ToolDefaults
    /\ card = IF moduleStep = "learning" THEN ConceptCardMounts ELSE CardDefaults
    /\ svc = NoCall

-----------------------------------------------------------------------------
(* SpecNav: handleNextConcept and handlePrevConcept, called on any chapter *)

\* onNext and onPrev as QuestView holds them: the handlers themselves, whether
\* or not a button that calls them is rendered and enabled
CallNextConcept ==
    /\ QuestMounted
    /\ handleNextConcept
    /\ UNCHANGED pending
    /\ Components(fuError)
    /\ Ran("handleNextConcept", <<>>)

CallPrevConcept ==
    /\ QuestMounted
    /\ handlePrevConcept
    /\ UNCHANGED pending
    /\ Components(fuError)
    /\ Ran("handlePrevConcept", <<>>)

InitNav ==
    /\ \E n \in 1..NavConcepts, i \in 0..(NavConcepts - 1) :
          /\ i < n
          /\ ModuleInProgress(Module(n), "learning", i, EmptyAnswers)
    /\ ModuleRendered

NextNav ==
    \/ CallNextConcept
    \/ CallPrevConcept

SpecNav == InitNav /\ [][NextNav]_vars

-----------------------------------------------------------------------------
(* SpecAnswers: handleAnswerSubmit, called with any arguments *)

AnsQuestionIndices == {0, 1}
AnsSelected == {"A", "B"}

\* onAnswerSubmit as QuestView holds it
CallAnswerSubmit(conceptIndex, questionIndex, selected, isCorrect) ==
    /\ QuestMounted
    /\ handleAnswerSubmit(conceptIndex, questionIndex, selected, isCorrect)
    /\ UNCHANGED pending
    /\ Components(fuError)
    /\ Ran("handleAnswerSubmit", <<conceptIndex, questionIndex, selected, isCorrect>>)

InitAnswers ==
    /\ ModuleInProgress(ModuleOf(AnsConcepts, Cardinality(AnsQuestionIndices)),
                        "learning", 0, EmptyAnswers)
    /\ ModuleRendered

NextAnswers ==
    \E c \in 0..(AnsConcepts - 1), q \in AnsQuestionIndices,
       selected \in AnsSelected, isCorrect \in BOOLEAN :
        CallAnswerSubmit(c, q, selected, isCorrect)

SpecAnswers == InitAnswers /\ [][NextAnswers]_vars

-----------------------------------------------------------------------------
(* SpecResults: ResultsOverview, rendered for modules of many sizes *)

\* the answers after the first k questions of a module of l questions a
\* concept were answered correctly, chapter by chapter
AnswersFirst(l, k) ==
    [c \in {c \in 0..k : c * l < k} |->
        [q \in {q \in 0..(l - 1) : c * l + q < k} |->
            [selected |-> "A", isCorrect |-> TRUE]]]

InitResults ==
    /\ \E n \in 1..ResConcepts, l \in 0..ResQuestions, k \in 0..(ResConcepts * ResQuestions) :
          /\ k <= n * l
          /\ ModuleInProgress(ModuleOf(n, l), "learning", n - 1, AnswersFirst(l, k))
    /\ ModuleRendered

NextResults == ClickFinish

SpecResults == InitResults /\ [][NextResults]_vars

-----------------------------------------------------------------------------
(* SpecStart: startGeneration, called on a module in progress *)

StartTexts == {<<Prose>>, <<Prose, Prose>>}

\* onStartModuleCreation as AnalysisView holds it: startGeneration itself,
\* whether or not the Create Learning Module button is rendered
CallStartGeneration(text) ==
    /\ AnalysisMounted
    /\ ~RenderThrows
    /\ Len(pending) < MaxInFlight
    /\ startGeneration(text)
    /\ Components(fuError)
    /\ Ran("startGeneration", <<text>>)

InitStart ==
    /\ \E n \in 1..MaxConcepts, i \in 0..(MaxConcepts - 1), k \in 0..MaxConcepts,
          step \in {"pre-module", "learning"} :
          /\ i < n
          /\ k <= n
          /\ step = "pre-module" => (i = 0 /\ k = 0)
          /\ ModuleInProgress(Module(n), step, i, AnswersFirst(1, k))
    /\ ModuleRendered

NextStart ==
    \/ \E text \in StartTexts : CallStartGeneration(text)
    \/ \E i \in 1..MaxInFlight, resp \in Responses : GenerationSettles(i, resp)

SpecStart == InitStart /\ [][NextStart]_vars

-----------------------------------------------------------------------------
(* SpecImage: PreQuestView loads the images of the visual task *)

\* PreQuestView has mounted for a generated module: its fetchImages effect
\* has set the loading state and made the first generateImage call
InitImage ==
    /\ \E n \in 1..MaxConcepts :
          ModuleInProgress(Module(n), "pre-module", 0, EmptyAnswers)
    /\ ModuleRendered

NextImage ==
    \/ \E resp \in ImageResponses : generateImagesSettled(resp)
    \/ delayElapsed
    \/ \E droppedTerm \in Terms, imagePrompt \in ImagePrompts :
            handleDrop(droppedTerm, imagePrompt)
    \/ ClickBeginModule

SpecImage == InitImage /\ [][NextImage]_vars

-----------------------------------------------------------------------------
(* SpecService: the operations of the service, one call followed at a time,
   beside the generateImage calls of PreQuestView *)

Operations ==
    {"transcribeFile", "getYouTubeTranscript", "generateModuleData",
     "evaluateSolution", "searchYouTube", "summarizeAndUnderstand",
     "generateArticleIdeas", "writeArticle"}

\* what generateContent may give the operation
ResponsesOf(op) == IF op = "generateModuleData" THEN Responses ELSE TextResponses

\* the outcome of the operation for the response
ServiceOutcome(op, resp) ==
    CASE op = "transcribeFile" -> transcribeFile(resp)
      [] op = "getYouTubeTranscript" -> getYouTubeTranscript(resp)
      [] op = "generateModuleData" ->
            LET r == generateModuleData(<<Prose>>, resp) IN
            IF r.ok THEN Returned(<<r.data>>) ELSE Thrown(<<r.message>>)
      [] op = "evaluateSolution" -> evaluateSolution(resp)
      [] op = "searchYouTube" -> searchYouTube(resp)
      [] op = "summarizeAndUnderstand" -> summarizeAndUnderstand(resp)
      [] op = "generateArticleIdeas" -> generateArticleIdeas(resp)
      [] OTHER -> writeArticle(resp)

\* the operation is called: it runs up to its first await, which is the
\* generateContent request but for transcribeFile, which first awaits
\* fileToGenerativePart with no request made
CallService(op) ==
    /\ svc.pc \notin {"reading", "request"}
    /\ svc' = [op |-> op,
               pc |-> IF op = "transcribeFile" THEN "reading" ELSE "request",
               requests |-> IF op = "transcribeFile" THEN 0 ELSE 1,
               ok |-> FALSE, message |-> <<>>, value |-> <<>>]
    /\ UNCHANGED <<appVars, pending, localVars, results, preQuestVars, imageVars,
                   tools, card>>
    /\ Ran("callService", <<op>>)

\* fileToGenerativePart resolves (FileReader's onloadend): transcribeFile goes
\* on to its generateContent request
fileRead ==
    /\ svc.pc = "reading"
    /\ svc' = [svc EXCEPT !.pc = "request", !.requests = 1]
    /\ UNCHANGED <<appVars, pending, localVars, results, preQuestVars, imageVars,
                   tools, card>>
    /\ Ran("fileRead", <<>>)

\* the request settles: the operation returns or throws, and is over
Settles(resp) ==
    /\ svc.pc = "request"
    /\ LET outcome == ServiceOutcome(svc.op, resp) IN
       svc' = [svc EXCEPT !.pc = IF outcome.ok THEN "returned" ELSE "thrown",
                          !.ok = outcome.ok,
                          !.message = outcome.message,
                          !.value = outcome.value]
    /\ UNCHANGED <<appVars, pending, localVars, results, preQuestVars, imageVars,
                   tools, card>>
    /\ Ran("serviceSettled", <<resp>>)

ServiceSettles(resp) ==
    /\ resp \in ResponsesOf(svc.op)
    /\ Settles(resp)

NextService ==
    \/ \E resp \in ImageResponses : generateImagesSettled(resp)
    \/ delayElapsed
    \/ ClickBeginModule
    \/ \E op \in Operations : CallService(op)
    \/ fileRead
    \/ \E resp \in Responses \cup TextResponses : ServiceSettles(resp)

SpecService == InitImage /\ [][NextService]_vars

-----------------------------------------------------------------------------
(* SpecTools: the AI Analysis Hub of AnalysisView and the ConceptCard, beside
   PreQuestView's images, from a module in the pre-module step *)

\* the responses the tools are run with
ToolResponses ==
    {r \in TextResponses : (r.rejected /\ r.isError) \/ r.text = <<"[", StringToken, "]">>}

\* and the responses generateArticleIdeas is run with: a text that is not
\* JSON besides
IdeasResponses == ToolResponses \cup {r \in TextResponses : r.text = <<Prose>>}

\* the responses of generateImages ConceptCard's image is fetched with
CardImageResponses ==
    {r \in ImageResponses : r.rejected => (r.isError /\ r.message = RateLimitText)}

\* the catch block of a tool of AnalysisView, with App's state set instead
ToolCaught_topLevel(message) ==
    /\ error' = Some(message)
    /\ view' = "error"
    /\ UNCHANGED <<selectedMedia, moduleStep, moduleData, transcription,
                   currentConceptIndex, quizAnswers, avError>>

\* the catch block of a tool of AnalysisView: setError of the component
ToolCaught(message) ==
    /\ avError' = Some(message)
    /\ UNCHANGED appVars

\* a tool of AnalysisView returned: nothing but the tool's own state is set
ToolReturned == UNCHANGED <<appVars, avError>>

\* what is left alone by the tools
ToolFrame ==
    UNCHANGED <<pending, fuError, localTranscription, isTranscribing, results,
                preQuestVars, imageVars, card, svc>>

\* handleSummarize up to its await; the button is disabled while summarizing
handleSummarize ==
    /\ AnalysisMounted
    /\ localTranscription # Null
    /\ ~tools.isSummarizing
    /\ tools' = [tools EXCEPT !.isSummarizing = TRUE, !.summary = Null]
    /\ UNCHANGED <<appVars, avError>>
    /\ ToolFrame
    /\ Ran("handleSummarize", <<>>)

\* handleSummarize after its await
summarizeSettled(resp) ==
    /\ AnalysisMounted
    /\ tools.isSummarizing
    /\ LET outcome == summarizeAndUnderstand(resp) IN
       IF outcome.ok
       THEN /\ tools' = [tools EXCEPT !.summary = Some(outcome.value),
                                      !.isSummarizing = FALSE]
            /\ ToolReturned
       ELSE /\ tools' = [tools EXCEPT !.isSummarizing = FALSE]
            /\ ToolCaught(outcome.message)
    /\ ToolFrame
    /\ Ran("summarizeSettled", <<resp>>)

\* handleGenerateIdeas(category) up to its await; the buttons are rendered
\* with a summary and disabled while generating
handleGenerateIdeas(category) ==
    /\ AnalysisMounted
    /\ localTranscription # Null
    /\ tools.summary # Null
    /\ ~tools.isGeneratingIdeas
    /\ tools' = [tools EXCEPT !.isGeneratingIdeas = TRUE,
                              !.ideaCategory = Some(category),
                              !.articleIdeas = Null]
    /\ UNCHANGED <<appVars, avError>>
    /\ ToolFrame
    /\ Ran("handleGenerateIdeas", <<category>>)

\* handleGenerateIdeas after its await
ideasSettled(resp) ==
    /\ AnalysisMounted
    /\ tools.isGeneratingIdeas
    /\ LET outcome == generateArticleIdeas(resp) IN
       IF outcome.ok
       THEN /\ tools' = [tools EXCEPT !.articleIdeas = Some(outcome.value),
                                      !.isGeneratingIdeas = FALSE,
                                      !.ideaCategory = Null]
            /\ ToolReturned
       ELSE /\ tools' = [tools EXCEPT !.isGeneratingIdeas = FALSE,
                                      !.ideaCategory = Null]
            /\ ToolCaught(outcome.message)
    /\ ToolFrame
    /\ Ran("ideasSettled", <<resp>>)

\* handleWriteArticle(idea) up to its await; the idea buttons are rendered
\* with a summary and ideas and disabled while writing
handleWriteArticle(idea) ==
    /\ AnalysisMounted
    /\ localTranscription # Null
    /\ tools.summary # Null
    /\ tools.articleIdeas # Null
    /\ ~tools.isWritingArticle
    /\ tools' = [tools EXCEPT !.selectedArticleIdea = Some(idea),
                              !.isWritingArticle = TRUE,
                              !.articleContent = Null]
    /\ UNCHANGED <<appVars, avError>>
    /\ ToolFrame
    /\ Ran("handleWriteArticle", <<idea>>)

\* handleWriteArticle after its await
articleSettled(resp) ==
    /\ AnalysisMounted
    /\ tools.isWritingArticle
    /\ LET outcome == writeArticle(resp) IN
       IF outcome.ok
       THEN /\ tools' = [tools EXCEPT !.articleContent = Some(outcome.value),
                                      !.isWritingArticle = FALSE]
            /\ ToolReturned
       ELSE /\ tools' = [tools EXCEPT !.isWritingArticle = FALSE]
            /\ ToolCaught(outcome.message)
    /\ ToolFrame
    /\ Ran("articleSettled", <<resp>>)

\* what is left alone by ConceptCard
CardFrame ==
    UNCHANGED <<appVars, pending, localVars, results, preQuestVars, imageVars,
                tools, svc>>

CardImageErrorMessage == "Could not generate illustration for this concept."

\* the generateImages request of ConceptCard's effect settles; the effect has
\* not been cleaned up, so isMounted is true
cardImageSettled(resp) ==
    /\ QuestMounted /\ card.mounted
    /\ card.image.pc = "generateImages"
    /\ LET err == TryThrows(resp) IN
       IF err = Null
       THEN card' = [card EXCEPT !.imageUrl = Some("data:image/png;base64"),
                                 !.isImageLoading = FALSE,
                                 !.image.pc = "returned",
                                 !.imageOf = card.prompt]
       ELSE IF err[1].isError /\ Includes(err[1].message, "429")
                 /\ card.image.retries > 0
            THEN card' = [card EXCEPT !.image.pc = "delay"]
            ELSE card' = [card EXCEPT !.imageError = Some(CardImageErrorMessage),
                                      !.isImageLoading = FALSE,
                                      !.image.pc = "thrown"]
    /\ CardFrame
    /\ Ran("cardImageSettled", <<resp>>)

\* the delay of generateImage, called by ConceptCard's effect, is over
cardDelayElapsed ==
    /\ QuestMounted /\ card.mounted
    /\ card.image.pc = "delay"
    /\ IF card.image.retries - 1 > 0
       THEN card' = [card EXCEPT !.image.pc = "generateImages",
                                 !.image.retries = card.image.retries - 1,
                                 !.image.backoff = card.image.backoff * 2,
                                 !.image.requests = card.image.requests + 1]
       ELSE card' = [card EXCEPT !.imageError = Some(CardImageErrorMessage),
                                 !.isImageLoading = FALSE,
                                 !.image.pc = "thrown",
                                 !.image.retries = card.image.retries - 1,
                                 !.image.backoff = card.image.backoff * 2]
    /\ CardFrame
    /\ Ran("cardDelay", <<>>)

\* the solutions typed into the textarea
Solutions == {<<Whitespace>>, <<"my solution">>}

\* onChange of the textarea, which is rendered until there is feedback and
\* disabled while evaluating
setSolution(text) ==
    /\ QuestMounted /\ card.mounted
    /\ card.feedback = Null /\ ~card.isEvaluating
    /\ card' = [card EXCEPT !.solution = text]
    /\ CardFrame
    /\ Ran("setSolution", <<text>>)

\* handleSolutionSubmit up to its await; the button is
\* disabled={isEvaluating || !solution.trim()}
handleSolutionSubmit ==
    /\ QuestMounted /\ card.mounted
    /\ card.feedback = Null /\ ~card.isEvaluating
    /\ Trim(card.solution) # <<>>
    /\ card' = [card EXCEPT !.isEvaluating = TRUE, !.feedback = Null,
                            !.evaluationError = Null,
                            !.submittedOn = Some(currentConceptIndex),
                            !.feedbackOn = Null]
    /\ CardFrame
    /\ Ran("handleSolutionSubmit", <<>>)

\* handleSolutionSubmit after its await
evaluationSettled(resp) ==
    /\ QuestMounted /\ card.mounted
    /\ card.isEvaluating
    /\ LET outcome == evaluateSolution(resp) IN
       IF outcome.ok
       THEN card' = [card EXCEPT !.feedback = Some(outcome.value),
                                 !.isEvaluating = FALSE,
                                 !.submittedOn = Null,
                                 !.feedbackOn = card.submittedOn]
       ELSE card' = [card EXCEPT !.evaluationError = Some(outcome.message),
                                 !.isEvaluating = FALSE,
                                 !.submittedOn = Null]
    /\ CardFrame
    /\ Ran("evaluationSettled", <<resp>>)

\* an answer given in the quiz of the current concept, by either kind of
\* question
AnswerInQuiz(i) == handleSelectOption(i, "A")

NextTools ==
    \/ \E resp \in ImageResponses : generateImagesSettled(resp)
    \/ delayElapsed
    \/ ClickBeginModule
    \/ handleSummarize
    \/ \E resp \in ToolResponses : summarizeSettled(resp)
    \/ handleGenerateIdeas("Professional")
    \/ \E resp \in IdeasResponses : ideasSettled(resp)
    \/ handleWriteArticle(StringToken)
    \/ \E resp \in ToolResponses : articleSettled(resp)
    \/ \E resp \in CardImageResponses : cardImageSettled(resp)
    \/ cardDelayElapsed
    \/ \E text \in Solutions : setSolution(text)
    \/ handleSolutionSubmit
    \/ \E resp \in ToolResponses : evaluationSettled(resp)
    \/ AnswerInQuiz(0)

\* the items of the visual task of the module the tools are run on
ToolItems == 2

ToolModule ==
    [Module(MaxConcepts) EXCEPT
        !.visual_task = SubSeq(Module(MaxConcepts).visual_task, 1, ToolItems)]

\* PreQuestView has mounted for that module and made its first generateImage
\* call
InitTools ==
    /\ ModuleInProgress(ToolModule, "pre-module", 0, EmptyAnswers)
    /\ ModuleRendered

SpecTools == InitTools /\ [][NextTools]_vars

-----------------------------------------------------------------------------
(* SpecSearch: searchYouTube on every response text of up to MaxTextLen
   tokens *)

MaxTextLen == 4

SearchAlphabet == {"[", "]", ",", VideoToken, NumberToken, Prose}

SearchTexts ==
    UNION {[1..n -> SearchAlphabet] : n \in 0..MaxTextLen}

SearchResponses ==
    {[rejected |-> FALSE, isError |-> FALSE, text |-> t] : t \in SearchTexts}
    \cup {[rejected |-> TRUE, isError |-> e, text |-> <<>>] : e \in BOOLEAN}

\* the value is a JSON array whose elements are all video records
IsVideoList(value) ==
    /\ Len(value) >= 2
    /\ value[1] = "[" /\ value[Len(value)] = "]"
    /\ Len(value) > 2 =>
          /\ Len(value) % 2 = 1
          /\ \A i \in 2..(Len(value) - 1) :
                value[i] = (IF i % 2 = 0 THEN VideoToken ELSE ",")

\* handleSearch of FileUpload calls searchYouTube(searchQuery)
CallSearch ==
    /\ FileUploadMounted
    /\ CallService("searchYouTube")

\* the request of searchYouTube settles
SearchSettles(resp) ==
    /\ svc.op = "searchYouTube"
    /\ Settles(resp)

NextSearch ==
    \/ CallSearch
    \/ \E resp \in SearchResponses : SearchSettles(resp)

SpecSearch == Init /\ [][NextSearch]_vars

-----------------------------------------------------------------------------
(* SpecFetch: the fetchImages effect of PreQuestView while a module-generation
   request that Reset Module left behind is still to settle *)

\* a state setter called by loop j of an earlier run of the effect acts when
\* the component that ran it is the one mounted
OrphanActs(j) == orphaned[j].mounted /\ PreQuestMounted

\* loop j of an earlier run ends: its catch block if caught, its finally block
OrphanEnds(j, caught) ==
    /\ orphaned' = RemoveAt(orphaned, j)
    /\ pqError' = IF caught /\ OrphanActs(j) THEN Some(CouldNotLoadMessage) ELSE pqError
    /\ isLoading' = IF OrphanActs(j) THEN FALSE ELSE isLoading

\* the generateImages request of loop j of an earlier run settles with resp
OrphanSettles(j, resp) ==
    /\ j \in 1..Len(orphaned)
    /\ orphaned[j].pc = "generateImages"
    /\ LET o == orphaned[j]
           err == TryThrows(resp) IN
       IF err = Null
       THEN /\ imageUrls' = IF OrphanActs(j) THEN imageUrls \cup {o.item} ELSE imageUrls
            /\ IF o.item < o.items
               THEN /\ orphaned' = [orphaned EXCEPT ![j] =
                                       [o EXCEPT !.item = o.item + 1, !.retries = 3,
                                                 !.backoff = 1000]]
                    /\ UNCHANGED <<isLoading, pqError>>
               ELSE OrphanEnds(j, FALSE)
       ELSE IF err[1].isError /\ Includes(err[1].message, "429") /\ o.retries > 0
            THEN /\ orphaned' = [orphaned EXCEPT ![j] = [o EXCEPT !.pc = "delay"]]
                 /\ UNCHANGED <<imageUrls, isLoading, pqError>>
            ELSE /\ OrphanEnds(j, TRUE)
                 /\ UNCHANGED imageUrls
    /\ UNCHANGED <<matchedPairs, giPc, giItem, retries, backoff, giRequests,
                   giDelays, giThrown, giItems>>
    /\ UNCHANGED <<appVars, pending, localVars, results, serviceVars>>
    /\ Ran("orphanSettled", <<j, resp>>)

\* the delay of loop j of an earlier run is over
OrphanDelayElapsed(j) ==
    /\ j \in 1..Len(orphaned)
    /\ orphaned[j].pc = "delay"
    /\ LET o == orphaned[j] IN
       IF o.retries - 1 > 0
       THEN /\ orphaned' = [orphaned EXCEPT ![j] =
                               [o EXCEPT !.pc = "generateImages",
                                         !.retries = o.retries - 1,
                                         !.backoff = o.backoff * 2]]
            /\ UNCHANGED <<isLoading, pqError>>
       ELSE OrphanEnds(j, TRUE)
    /\ UNCHANGED <<imageUrls, matchedPairs, giPc, giItem, retries, backoff,
                   giRequests, giDelays, giThrown, giItems>>
    /\ UNCHANGED <<appVars, pending, localVars, results, serviceVars>>
    /\ Ran("orphanDelay", <<j>>)

\* PreQuestView has just mounted for the module of the second of two requests;
\* the first, made before Reset Module, has not settled
InitFetch ==
    /\ view = "dashboard"
    /\ error = Null
    /\ selectedMedia = Some(File(AudioMpeg, MAX_FILE_SIZE_BYTES))
    /\ moduleStep = "pre-module"
    /\ \E n \in 1..MaxConcepts : moduleData = Some(Module(n))
    /\ transcription = Some(TranscriptOf(File(AudioMpeg, MAX_FILE_SIZE_BYTES)))
    /\ currentConceptIndex = 0
    /\ quizAnswers = EmptyAnswers
    /\ pending = <<[text |-> TranscriptOf(File(AudioMpeg, MAX_FILE_SIZE_BYTES)),
                    stale |-> TRUE]>>
    /\ fuError = Null
    /\ localTranscription = Some(TranscriptOf(File(AudioMpeg, MAX_FILE_SIZE_BYTES)))
    /\ isTranscribing = FALSE
    /\ avError = Null
    /\ results = Null
    /\ lastOp = [name |-> "mount", args |-> <<>>, changed |-> FALSE]
    /\ ModuleRendered

\* the learner drags term k of the visual task shown onto its image
DropOnMatch(k) ==
    /\ PreQuestMounted
    /\ k \in 1..Len(visualTask)
    /\ handleDrop(visualTask[k].term, visualTask[k].image_prompt)

\* what the request left behind settles to: a module, or a rejection
FetchResponses == {r \in Responses : r.kind = "rejected" \/ r.n > 0}

NextFetch ==
    \/ \E resp \in CardImageResponses : generateImagesSettled(resp)
    \/ delayElapsed
    \/ \E k \in 1..VisualItems : DropOnMatch(k)
    \/ ClickBeginModule
    \/ \E resp \in FetchResponses : GenerationSettles(1, resp)
    \/ \E j \in 1..MaxInFlight, resp \in CardImageResponses : OrphanSettles(j, resp)
    \/ \E j \in 1..MaxInFlight : OrphanDelayElapsed(j)

SpecFetch == InitFetch /\ [][NextFetch]_vars

-----------------------------------------------------------------------------
(* SpecCard: ConceptCard while the learner goes from chapter to chapter.
   QuestView renders ConceptCard without a key, so the same component, with
   its state, is rendered for every chapter. *)

CardConcepts == 3

\* the modules shown: every concept with an image_prompt, or the second
\* concept with an empty one
CardModules ==
    {ModuleOf(CardConcepts, 1),
     [ModuleOf(CardConcepts, 1) EXCEPT !.concepts[2].image_prompt = <<>>]}

\* isMounted as a call of an earlier run of the image effect reads it
isMountedAfterCleanup == FALSE

\* the generateImages request of call j of an earlier run of the image effect
\* settles: generateImage returns, throws or waits to retry as ever, and the
\* state setters are behind if (isMounted)
staleImageSettled(j, resp) ==
    /\ QuestMounted /\ card.mounted
    /\ j \in 1..Len(card.stale)
    /\ card.stale[j].pc = "generateImages"
    /\ LET err == TryThrows(resp)
           acts == isMountedAfterCleanup IN
       IF err = Null
       THEN card' = [card EXCEPT
                        !.stale = RemoveAt(card.stale, j),
                        !.imageUrl = IF acts THEN Some("data:image/png;base64") ELSE @,
                        !.isImageLoading = IF acts THEN FALSE ELSE @]
       ELSE IF err[1].isError /\ Includes(err[1].message, "429")
                 /\ card.stale[j].retries > 0
            THEN card' = [card EXCEPT !.stale[j].pc = "delay"]
            ELSE card' = [card EXCEPT
                             !.stale = RemoveAt(card.stale, j),
                             !.imageError = IF acts THEN Some(CardImageErrorMessage) ELSE @,
                             !.isImageLoading = IF acts THEN FALSE ELSE @]
    /\ CardFrame
    /\ Ran("staleImageSettled", <<j, resp>>)

\* the delay of call j of an earlier run is over
staleDelayElapsed(j) ==
    /\ QuestMounted /\ card.mounted
    /\ j \in 1..Len(card.stale)
    /\ card.stale[j].pc = "delay"
    /\ LET call == card.stale[j]
           acts == isMountedAfterCleanup IN
       IF call.retries - 1 > 0
       THEN card' = [card EXCEPT !.stale[j] =
                        [call EXCEPT !.pc = "generateImages",
                                     !.retries = call.retries - 1,
                                     !.backoff = call.backoff * 2,
                                     !.requests = call.requests + 1]]
       ELSE card' = [card EXCEPT
                        !.stale = RemoveAt(card.stale, j),
                        !.imageError = IF acts THEN Some(CardImageErrorMessage) ELSE @,
                        !.isImageLoading = IF acts THEN FALSE ELSE @]
    /\ CardFrame
    /\ Ran("staleDelay", <<j>>)

\* QuestView has mounted with its ConceptCard on the first chapter
InitCard ==
    /\ \E module \in CardModules :
          ModuleInProgress(module, "learning", 0, EmptyAnswers)
    /\ ModuleRendered

NextCard ==
    \/ ClickNext
    \/ ClickPrev
    \/ \E resp \in CardImageResponses : cardImageSettled(resp)
    \/ cardDelayElapsed
    \/ \E j \in 1..MaxStale, resp \in CardImageResponses : staleImageSettled(j, resp)
    \/ \E j \in 1..MaxStale : staleDelayElapsed(j)
    \/ \E text \in Solutions : setSolution(text)
    \/ handleSolutionSubmit
    \/ \E resp \in ToolResponses : evaluationSettled(resp)

SpecCard == InitCard /\ [][NextCard]_vars

-----------------------------------------------------------------------------
(* SpecHub: the tools of AnalysisView while the user goes back to the upload
   view and selects a media again.  No request is cancelled when AnalysisView
   is unmounted. *)

\* request j of an unmounted AnalysisView settles: the state setters of its
\* handler do nothing
abandonedSettled(j) ==
    /\ j \in 1..Len(tools.abandoned)
    /\ tools' = [tools EXCEPT !.abandoned = RemoveAt(tools.abandoned, j)]
    /\ UNCHANGED <<appVars, pending, localVars, results, preQuestVars, imageVars,
                   card, svc>>
    /\ Ran("abandonedSettled", <<j>>)

NextHub ==
    \/ handleFileChange(<<File(AudioMpeg, MAX_FILE_SIZE_BYTES)>>)
    \/ \E resp \in MediaResponses : processMediaSettled(resp)
    \/ ClickResetApp
    \/ handleSummarize
    \/ \E resp \in ToolResponses : summarizeSettled(resp)
    \/ handleGenerateIdeas("Professional")
    \/ \E resp \in ToolResponses : ideasSettled(resp)
    \/ handleWriteArticle(StringToken)
    \/ \E resp \in ToolResponses : articleSettled(resp)
    \/ \E j \in 1..MaxInFlight : abandonedSettled(j)

SpecHub == Init /\ [][NextHub]_vars

-----------------------------------------------------------------------------
(* SpecStray: ResultsOverview, rendered with answers that need not belong to
   the module's questions *)

StrayConcepts == 3
StrayQuestions == 2

\* answers as a learner of a module with w questions a concept leaves them
\* after k questions, chapter by chapter; every m-th one is correct
AnswersShaped(w, k, m) ==
    [c \in {c \in 0..k : c * w < k} |->
        [q \in {q \in 0..(w - 1) : c * w + q < k} |->
            [selected |-> IF (c * w + q) % m = 0 THEN "A" ELSE "B",
             isCorrect |-> (c * w + q) % m = 0]]]

\* the entries of answers that are for a question of concepts
WithoutStrays(concepts, answers) ==
    [c \in {c \in DOMAIN answers : c < Len(concepts)} |->
        [q \in {q \in DOMAIN answers[c] : q < Len(concepts[c + 1].quiz)} |->
            answers[c][q]]]

InitStray ==
    /\ \E n \in 1..StrayConcepts, l \in 0..StrayQuestions,
          w \in 1..(StrayQuestions + 1),
          k \in 0..((StrayConcepts + 1) * (StrayQuestions + 1)),
          m \in 1..2 :
          ModuleInProgress(ModuleOf(n, l), "learning", n - 1, AnswersShaped(w, k, m))
    /\ ModuleRendered

NextStray == ClickFinish

SpecStray == InitStray /\ [][NextStray]_vars

-----------------------------------------------------------------------------
(* Spec: the application from the upload screen, with every request answered
   or refused at once by the service *)

\* generateImages resolves with no image: the response every image request
\* gets under Spec
NoImageResponse == [rejected |-> FALSE, images |-> 0, isError |-> FALSE, message |-> <<>>]

Next ==
    \/ \E files \in {<<>>} \cup {<<f>> : f \in Files} : handleFileChange(files)
    \/ \E video \in Videos : handleSelectVideo(video)
    \/ \E resp \in MediaResponses : processMediaSettled(resp)
    \/ ClickCreateModule
    \/ \E i \in 1..MaxInFlight, resp \in Responses : GenerationSettles(i, resp)
    \/ ClickResetModule
    \/ ClickResetApp
    \/ generateImagesSettled(NoImageResponse)
    \/ \E j \in 1..MaxInFlight : OrphanSettles(j, NoImageResponse)
    \/ ClickBeginModule
    \/ cardImageSettled(NoImageResponse)
    \/ \E j \in 1..MaxStale : staleImageSettled(j, NoImageResponse)
    \/ ClickNext
    \/ ClickPrev
    \/ ClickFinish
    \/ \E i \in 0..(ResQuestions - 1), option \in {"A", "B"} :
            handleSelectOption(i, option)
    \/ \E i \in 0..(ResQuestions - 1) : handleRevealShortAnswer(i)

Spec == Init /\ [][Next]_vars

-----------------------------------------------------------------------------
(* SpecExample: a session from the upload screen with the module the prompt
   asks for, in which the learner takes the questions of a chapter in their
   order and answers them rightly *)

\* every question of every concept has an answer, and a correct one
AllCorrect(module, answers) ==
    \A c \in 0..(Len(module.concepts) - 1) :
        \A q \in 0..(Len(module.concepts[c + 1].quiz) - 1) :
            /\ isAnswered(answers, c, q)
            /\ answerData(answers, c, q)[1].isCorrect

\* the questions of the current chapter that have no answer
Unanswered ==
    IF QuestMounted /\ ~RenderThrows
    THEN {q \in 0..(Len(currentConcept.quiz) - 1) :
             ~isAnswered(quizAnswers, currentConceptIndex, q)}
    ELSE {}

\* the question the learner takes: the first without an answer
NextQuestion == {q \in Unanswered : \A r \in Unanswered : q <= r}

NextExample ==
    \/ handleFileChange(<<File(AudioMpeg, MAX_FILE_SIZE_BYTES)>>)
    \/ \E resp \in MediaResponses : processMediaSettled(resp)
    \/ ClickCreateModule
    \/ \E resp \in {LessonResponse, [kind |-> "empty", n |-> 0]} :
            GenerationSettles(1, resp)
    \/ generateImagesSettled(NoImageResponse)
    \/ ClickBeginModule
    \/ cardImageSettled(NoImageResponse)
    \/ staleImageSettled(1, NoImageResponse)
    \/ \E i \in NextQuestion : handleSelectOption(i, "A")
    \/ \E i \in NextQuestion : handleRevealShortAnswer(i)
    \/ ClickNext
    \/ ClickFinish

SpecExample == Init /\ [][NextExample]_vars

-----------------------------------------------------------------------------
(* SpecOverlap: a session from the upload screen in which Create Learning
   Module is clicked again after Reset Module while earlier requests are in
   flight, up to MaxGenerations of them, and every request returns a module *)

OverlapResponses == {[kind |-> "module", n |-> n] : n \in 0..MaxConcepts}

NextOverlap ==
    \/ handleFileChange(<<File(AudioMpeg, MAX_FILE_SIZE_BYTES)>>)
    \/ processMediaSettled(LectureResponse)
    \/ CreateModule(MaxGenerations)
    \/ ClickResetModule
    \/ \E i \in 1..MaxGenerations, resp \in OverlapResponses :
            GenerationSettles(i, resp)
    \/ generateImagesSettled(NoImageResponse)
    \/ \E j \in 1..MaxInFlight : OrphanSettles(j, NoImageResponse)
    \/ ClickBeginModule
    \/ cardImageSettled(NoImageResponse)
    \/ staleImageSettled(1, NoImageResponse)
    \/ ClickNext

SpecOverlap == Init /\ [][NextOverlap]_vars

-----------------------------------------------------------------------------
(* Claims, each under the specification that runs its part of the program *)

\* C1: a completion of a generation request that was in flight when
\* resetModule or resetApp ran is ignored: it changes none of view, error,
\* moduleStep, moduleData, currentConceptIndex, quizAnswers.
C1_StaleCompletionIgnored ==
    ~(/\ lastOp.name = "startGenerationSettled"
      /\ lastOp.args[2]
      /\ lastOp.changed)

\* C2: whenever moduleStep is 'learning', moduleData is not null and
\* 0 <= currentConceptIndex < moduleData.concepts.length.
C2_LearningIndexInRange ==
    moduleStep = "learning" =>
        /\ moduleData # Null
        /\ 0 <= currentConceptIndex
        /\ currentConceptIndex < Len(moduleData[1].concepts)

\* C3: handleNextConcept and handlePrevConcept never move currentConceptIndex
\* outside [0, concepts.length - 1]: next adds one only below the last index,
\* prev subtracts one only above 0, and at the boundary each leaves the index
\* as it is.
C3_NavigationStaysInRange ==
    /\ [][(lastOp'.name = "handleNextConcept"
             => currentConceptIndex' =
                   (IF currentConceptIndex < Len(moduleData[1].concepts) - 1
                    THEN currentConceptIndex + 1
                    ELSE currentConceptIndex))
          /\ (lastOp'.name = "handlePrevConcept"
             => currentConceptIndex' =
                   (IF currentConceptIndex > 0
                    THEN currentConceptIndex - 1
                    ELSE currentConceptIndex))]_vars
    /\ [](/\ 0 <= currentConceptIndex
          /\ currentConceptIndex <= Len(moduleData[1].concepts) - 1)

\* C3 witness: handleNextConcept was called on the last of several chapters
\* and the index stayed
C3_Witness ==
    /\ lastOp.name = "handleNextConcept"
    /\ ~lastOp.changed
    /\ Len(moduleData[1].concepts) >= 2
    /\ currentConceptIndex = Len(moduleData[1].concepts) - 1

\* C4: a generation that returns a module with zero concepts sets view to
\* 'error' with the zero-concepts message and leaves moduleStep and moduleData
\* as they were; and moduleStep is 'pre-module' only with a stored module of at
\* least one concept.
C4_ZeroConceptsIsError ==
    /\ [][(/\ lastOp'.name = "startGenerationSettled"
           /\ lastOp'.args[1] = [kind |-> "module", n |-> 0])
          => (/\ view' = "error"
              /\ error' = Some(ZeroConceptsMessage)
              /\ UNCHANGED <<moduleStep, moduleData>>)]_vars
    /\ [](moduleStep = "pre-module" =>
            (moduleData # Null /\ Len(moduleData[1].concepts) >= 1))

\* the first part of C4 for the completions that find App mounted
ZeroConceptsIsErrorWhileMounted ==
    [][(/\ lastOp'.name = "startGenerationSettled"
        /\ lastOp'.args[1] = [kind |-> "module", n |-> 0]
        /\ ~RenderThrows)
       => (/\ view' = "error"
           /\ error' = Some(ZeroConceptsMessage)
           /\ UNCHANGED <<moduleStep, moduleData>>)]_vars

\* C4 witness: a zero-concept module came back and the error view shows its message
C4_Witness ==
    /\ lastOp.name = "startGenerationSettled"
    /\ lastOp.args[1] = [kind |-> "module", n |-> 0]
    /\ view = "error"
    /\ error = Some(ZeroConceptsMessage)

\* C5: resetModule sets moduleStep and moduleData to null, quizAnswers to empty
\* and currentConceptIndex to 0, and leaves selectedMedia and transcription.
C5_ResetModuleEffect ==
    [][lastOp'.name = "resetModule"
       => (/\ moduleStep' = "null"
           /\ moduleData' = Null
           /\ quizAnswers' = EmptyAnswers
           /\ currentConceptIndex' = 0
           /\ UNCHANGED <<selectedMedia, transcription>>)]_vars

\* C5 witness: resetModule ran on a module in progress and the media and the
\* transcript are still there
C5_Witness ==
    /\ lastOp.name = "resetModule"
    /\ lastOp.changed
    /\ selectedMedia # Null
    /\ transcription # Null
    /\ moduleStep = "null"

\* C6: after resetState the application is in its initial selection state.
C6_ResetAppEffect ==
    lastOp.name = "resetState" =>
        /\ view = "idle"
        /\ error = Null
        /\ selectedMedia = Null
        /\ transcription = Null
        /\ moduleStep = "null"
        /\ moduleData = Null
        /\ quizAnswers = EmptyAnswers
        /\ currentConceptIndex = 0

\* C6 witness: resetState ran and changed the module state
C6_Witness ==
    /\ lastOp.name = "resetState"
    /\ lastOp.changed
    /\ view = "idle"

\* C7: when every request is answered with a rate-limit signal, generateImage
\* throws its final error only after 4 requests (one and 3 retries), having
\* waited 1000 ms, 2000 ms and 4000 ms between them.
C7_FourRequestsThenError ==
    giThrown = Some(RetriesExhaustedText) =>
        /\ giRequests = 4
        /\ giDelays = <<1000, 2000, 4000>>

\* C8: the percentage ResultsOverview shows is 100 * score / totalQuestions
\* rounded to the nearest integer (a half rounds up), and 0 when there is no
\* question.
C8_PercentageIsRounded ==
    results # Null =>
        results[1].percentage =
            IF results[1].totalQuestions = 0 THEN 0
            ELSE (200 * results[1].score + results[1].totalQuestions)
                     \div (2 * results[1].totalQuestions)

\* C9: handleAnswerSubmit is idempotent: the call that just ran, made once
\* more with the same arguments, gives the same answers.
C9_AnswerSubmitIdempotent ==
    lastOp.name = "handleAnswerSubmit" =>
        AnswerUpdater(quizAnswers, lastOp.args[1], lastOp.args[2],
                      lastOp.args[3], lastOp.args[4]) = quizAnswers

\* C9 witness: the same call was made twice in a row and the second one
\* changed nothing, with another answer recorded beside it
C9_Witness ==
    /\ lastOp.name = "handleAnswerSubmit"
    /\ ~lastOp.changed
    /\ lastOp.args[1] \in DOMAIN quizAnswers
    /\ Cardinality(DOMAIN quizAnswers[lastOp.args[1]]) >= 2

\* C10: handleFileChange selects a file exactly when its type starts with
\* audio/ or video/ and its size is at most 20*1024*1024 bytes; any other file
\* gets a validation message and App's state stays as it was.
C10_FileSelection ==
    [][\A f \in Files :
         (lastOp'.name = "handleFileChange" /\ lastOp'.args = <<f>>)
         => IF /\ Len(f.type) >= 6
               /\ SubSeq(f.type, 1, 6) \in {AudioPrefix, VideoPrefix}
               /\ f.size <= 20 * 1024 * 1024
            THEN /\ selectedMedia' = Some(f)
                 /\ view' = "dashboard"
            ELSE /\ fuError' # Null
                 /\ UNCHANGED appVars]_vars

\* C10 witness: a file of exactly 20 MB was selected
C10_Witness ==
    /\ lastOp.name = "handleFileChange"
    /\ lastOp.args = <<File(AudioMpeg, 20 * 1024 * 1024)>>
    /\ selectedMedia = Some(File(AudioMpeg, 20 * 1024 * 1024))
    /\ view = "dashboard"

\* C11: the error view is entered from the generating step only: in every
\* step that takes view to 'error', moduleStep is 'generating' before the step.
C11_ErrorFromGeneratingOnly ==
    [][(view # "error" /\ view' = "error") => moduleStep = "generating"]_vars

\* C12: once a failed generation has set view to 'error', view stays 'error'
\* until resetState runs, resetState (Try Again) is the only handler the user
\* can call there (a completion of a request, for a module or for an image,
\* is no user action), and it takes the application to the idle view with
\* error cleared.
C12_ErrorHaltsUntilReset ==
    [][view = "error" =>
          /\ lastOp'.name \in {"resetState", "startGenerationSettled",
                                "generateImagesSettled", "orphanSettled"}
          /\ lastOp'.name # "resetState" => view' = "error"
          /\ lastOp'.name = "resetState" => (view' = "idle" /\ error' = Null)]_vars

\* C12 witness: an empty response has put the application in the error view,
\* where Try Again can be clicked and no module can be created
C12_Witness ==
    /\ view = "error"
    /\ error = Some(EmptyModuleMessage)
    /\ lastOp.name = "startGenerationSettled"
    /\ ENABLED ClickResetApp
    /\ ~ENABLED ClickCreateModule

\* C13: startGeneration(text), before its request completes, sets moduleStep
\* to 'generating', moduleData to null, quizAnswers to empty,
\* currentConceptIndex to 0 and error to null, and records text as
\* transcription.
C13_StartGenerationEffect ==
    [][lastOp'.name = "startGeneration" =>
          /\ moduleStep' = "generating"
          /\ moduleData' = Null
          /\ quizAnswers' = EmptyAnswers
          /\ currentConceptIndex' = 0
          /\ error' = Null
          /\ transcription' = Some(lastOp'.args[1])]_vars

\* C13 witness: startGeneration ran with a new text on a module in progress,
\* and its request is in flight
C13_Witness ==
    /\ lastOp.name = "startGeneration"
    /\ lastOp.args = <<<<Prose, Prose>>>>
    /\ lastOp.changed
    /\ moduleStep = "generating"
    /\ transcription = Some(<<Prose, Prose>>)
    /\ Len(pending) = 1

\* C14: while PreQuestView is mounted, at most one of the generateImage
\* requests of its fetchImages effect is in flight.
C14_OneImageRequestInFlight ==
    PreQuestMounted =>
        Cardinality({j \in 1..Len(orphaned) :
                        orphaned[j].mounted /\ orphaned[j].pc = "generateImages"})
          + (IF giPc = "generateImages" THEN 1 ELSE 0) <= 1

\* C15: a generateImage failure whose message has no 429 is thrown at once,
\* with no further request and no delay; a failure of any other operation is
\* thrown after its one request, and the operation issues nothing after it.
C15_NoRetryButRateLimit ==
    [][/\ (/\ lastOp'.name = "generateImagesSettled"
           /\ TryThrows(lastOp'.args[1]) # Null
           /\ ~Includes(TryThrows(lastOp'.args[1])[1].message, "429"))
          => (/\ giPc' = "thrown"
              /\ giThrown' = Some(Rethrown(TryThrows(lastOp'.args[1])[1]))
              /\ giRequests' = giRequests
              /\ giDelays' = giDelays)
       /\ (lastOp'.name = "serviceSettled" /\ ~svc'.ok)
          => (svc'.pc = "thrown" /\ svc'.requests = 1)
       /\ (svc.pc = "thrown" /\ lastOp'.name # "callService") => svc' = svc]_vars

C15_Witness ==
    /\ lastOp.name = "generateImagesSettled"
    /\ ~lastOp.args[1].rejected /\ lastOp.args[1].images = 0
    /\ giPc = "thrown"
    /\ giThrown = Some(FailedPrefix \o NoImagesText)
    /\ giRequests = 1
    /\ giDelays = <<>>
    /\ svc.op = "searchYouTube" /\ svc.pc = "thrown" /\ svc.requests = 1

\* C16: a failed image-generation, summary, ideas, article or evaluation
\* request sets the error message of the component that made it and leaves
\* view, moduleStep, moduleData, currentConceptIndex and quizAnswers as they
\* were.
C16_FailuresStayInline ==
    [][LET name == lastOp'.name
           resp == lastOp'.args[1]
           sessionKept == /\ view' = view
                          /\ moduleStep' = moduleStep
                          /\ moduleData' = moduleData
                          /\ currentConceptIndex' = currentConceptIndex
                          /\ quizAnswers' = quizAnswers IN
       /\ (name = "summarizeSettled" /\ ~summarizeAndUnderstand(resp).ok)
          => (sessionKept /\ avError' = Some(summarizeAndUnderstand(resp).message))
       /\ (name = "ideasSettled" /\ ~generateArticleIdeas(resp).ok)
          => (sessionKept /\ avError' = Some(generateArticleIdeas(resp).message))
       /\ (name = "articleSettled" /\ ~writeArticle(resp).ok)
          => (sessionKept /\ avError' = Some(writeArticle(resp).message))
       /\ (name = "evaluationSettled" /\ ~evaluateSolution(resp).ok)
          => (sessionKept
              /\ card'.evaluationError = Some(evaluateSolution(resp).message))
       /\ (name \in {"cardImageSettled", "cardDelay"} /\ card'.image.pc = "thrown")
          => (sessionKept /\ card'.imageError = Some(CardImageErrorMessage))
       /\ (name \in {"generateImagesSettled", "delay"} /\ giPc' = "thrown")
          => (/\ sessionKept
              /\ (PreQuestMounted => pqError' = Some(CouldNotLoadMessage)))]_vars

C16_Witness ==
    /\ lastOp.name = "evaluationSettled"
    /\ card.evaluationError # Null
    /\ card.imageError # Null
    /\ avError # Null
    /\ giPc = "thrown" /\ giItem = ToolItems
    /\ giThrown = Some(RetriesExhaustedText)
    /\ view = "dashboard" /\ moduleStep = "learning"
    /\ quizAnswers # EmptyAnswers
    /\ ENABLED ClickNext

\* C17: from idle, a generation that returns 6 concepts of 3 questions leads
\* to pre-module; startModule leads to learning at index 0; finish at the last
\* chapter with all 18 questions answered correctly shows score 18 of 18 and
\* percentage 100.
C17_ExampleRun ==
    [][LET lesson == ModuleOf(6, 3) IN
       /\ (/\ lastOp'.name = "startGenerationSettled"
           /\ lastOp'.args[1] = LessonResponse
           /\ moduleStep = "generating")
          => (/\ view' = "dashboard"
              /\ moduleStep' = "pre-module"
              /\ moduleData' = Some(lesson))
       /\ lastOp'.name = "handleStartModule"
          => (moduleStep' = "learning" /\ currentConceptIndex' = 0)
       /\ (/\ lastOp'.name = "handleFinishModule"
           /\ moduleData = Some(lesson)
           /\ currentConceptIndex = 5
           /\ AllCorrect(lesson, quizAnswers))
          => (/\ moduleStep' = "results"
              /\ results' = Some([score |-> 18, totalQuestions |-> 18,
                                  percentage |-> 100]))]_vars

C17_Witness ==
    /\ lastOp.name = "handleFinishModule"
    /\ view = "dashboard" /\ moduleStep = "results"
    /\ moduleData = Some(ModuleOf(6, 3))
    /\ AllCorrect(ModuleOf(6, 3), quizAnswers)
    /\ results = Some([score |-> 18, totalQuestions |-> 18, percentage |-> 100])

\* C18: what searchYouTube returns is an array of video records; for every
\* other response it throws.
C18_SearchReturnsVideosOrThrows ==
    (svc.op = "searchYouTube" /\ svc.pc = "returned") => IsVideoList(svc.value)

\* C19: at most one generateModuleData request is in flight.
C19_OneGenerationInFlight == Len(pending) <= 1

\* C20: moduleData is not replaced while quizAnswers holds entries: a step that
\* changes moduleData starts without answers or ends without them.
C20_AnswersBelongToModule ==
    [][(quizAnswers # EmptyAnswers /\ moduleData' # moduleData)
          => quizAnswers' = EmptyAnswers]_vars

\* C21: moduleStep goes from learning to results only on the last chapter
\* (currentConceptIndex = concepts.length - 1): the finish handler runs from
\* the last chapter only, where the next control is not offered, and on every
\* other chapter that is shown the next control is offered (where one more
\* image call of an earlier chapter can be followed).
C21_FinishOnlyOnLastChapter ==
    [][/\ ((moduleStep = "learning" /\ moduleStep' = "results")
           \/ lastOp'.name = "handleFinishModule")
          => (/\ moduleData # Null
              /\ currentConceptIndex = Len(moduleData[1].concepts) - 1)
       /\ (QuestMounted /\ ~RenderThrows /\ Len(CleanedUp(card)) <= MaxStale)
          => ((ENABLED ClickNext)
                 <=> currentConceptIndex # Len(moduleData[1].concepts) - 1)]_vars

C21_Witness ==
    /\ lastOp.name = "handleFinishModule"
    /\ moduleStep = "results"
    /\ moduleData # Null
    /\ Len(moduleData[1].concepts) = MaxConcepts
    /\ currentConceptIndex = MaxConcepts - 1

\* C22: onStartModule is triggered only when the image loading has failed or
\* every term of the visual task shown is in matchedPairs, one entry for each
\* item.
C22_StartOnlyWhenMatched ==
    [][lastOp'.name = "handleStartModule"
          => \/ pqError # Null
             \/ /\ Len(matchedPairs) = Len(visualTask)
                /\ \A k \in 1..Len(visualTask) :
                      Includes(matchedPairs, visualTask[k].term)]_vars

\* C23: quizAnswers only grows between resets: unless the step is resetModule,
\* resetApp (resetState) or startGeneration, every entry quizAnswers holds is
\* still there, unchanged, after the step; this includes the steps that record
\* an answer for another question.
C23_AnswersOnlyGrow ==
    [][lastOp'.name \notin {"resetModule", "resetState", "startGeneration"}
          => \A c \in DOMAIN quizAnswers :
                /\ c \in DOMAIN quizAnswers'
                /\ \A q \in DOMAIN quizAnswers[c] :
                      /\ q \in DOMAIN quizAnswers'[c]
                      /\ quizAnswers'[c][q] = quizAnswers[c][q]]_vars

C23_Witness ==
    /\ lastOp.name = "handleAnswerSubmit"
    /\ lastOp.args[1] = 0
    /\ DOMAIN quizAnswers = {0, 1}
    /\ quizAnswers[1][0].selected = "A"
    /\ quizAnswers[0][0].selected = "B"

\* C24: the feedback ConceptCard shows answers the challenge of the chapter
\* shown, and an evaluation that keeps the solution form of the chapter shown
\* disabled was submitted on that chapter.
C24_FeedbackBelongsToChapter ==
    (QuestMounted /\ card.mounted)
       => /\ card.feedback # Null => card.feedbackOn = Some(currentConceptIndex)
          /\ card.isEvaluating => card.submittedOn = Some(currentConceptIndex)

\* C25: an illustration ConceptCard shows was generated from the image_prompt
\* of the concept shown.
C25_IllustrationOfCurrentPrompt ==
    (QuestMounted /\ ~RenderThrows /\ card.mounted /\ card.imageUrl # Null)
       => card.imageOf = Some(currentConcept.image_prompt)

\* the questions with empty options that have an entry, in a module with
\* these concepts and these answers
RevealedShortAnswers(concepts, answers) ==
    {x \in UNION {{<<c, q>> : q \in 0..(Len(concepts[c + 1].quiz) - 1)} :
                     c \in 0..(Len(concepts) - 1)} :
        /\ Len(concepts[x[1] + 1].quiz[x[2] + 1].options) = 0
        /\ isAnswered(answers, x[1], x[2])}

\* C26: revealing a short-answer question (empty options) records the entry
\* with selected = the question's answer and isCorrect = true, and the score
\* of the results counts every short-answer question that has an entry.
C26_RevealCountsAsCorrect ==
    [][/\ (/\ lastOp'.name = "handleAnswerSubmit"
           /\ Len(currentConcept.quiz[lastOp'.args[2] + 1].options) = 0)
          => /\ lastOp'.args[1] = currentConceptIndex
             /\ answerData(quizAnswers', lastOp'.args[1], lastOp'.args[2])
                   = Some([selected |-> currentConcept.quiz[lastOp'.args[2] + 1].answer,
                           isCorrect |-> TRUE])
       /\ results' # Null
          => results'[1].score >= Cardinality(RevealedShortAnswers(
                                    moduleData'[1].concepts, quizAnswers'))]_vars

C26_Witness ==
    /\ results # Null
    /\ results[1].score = 1
    /\ DOMAIN quizAnswers = {1}
    /\ RevealedShortAnswers(moduleData[1].concepts, quizAnswers) = {<<1, 0>>}
    /\ quizAnswers[1][0] = [selected |-> "A", isCorrect |-> TRUE]

\* C27: every entry recorded through QuizItem, by a choice among the options
\* or by revealing a short answer, has isCorrect = (selected is the answer of
\* the question it is recorded for).
C27_IsCorrectIffAnswer ==
    [][lastOp'.name = "handleAnswerSubmit"
          => LET c == lastOp'.args[1]
                 q == lastOp'.args[2]
                 entry == answerData(quizAnswers', c, q)
                 question == moduleData[1].concepts[c + 1].quiz[q + 1]
             IN  /\ entry # Null
                 /\ entry[1].isCorrect = (entry[1].selected = question.answer)]_vars

C27_Witness ==
    /\ lastOp.name = "handleAnswerSubmit"
    /\ lastOp.args[1] = 1
    /\ moduleData # Null
    /\ DOMAIN quizAnswers = {0, 1}
    /\ quizAnswers[0][0] = [selected |-> "B", isCorrect |-> FALSE]
    /\ quizAnswers[1][0] = [selected |-> "A", isCorrect |-> TRUE]
    /\ Len(moduleData[1].concepts[2].quiz[1].options) = 0

\* C28: when a generateImage call of the visual-task loop throws, the loop
\* ends: PreQuestView shows the error message, loading is over, the start
\* control is enabled whatever was matched, and no request is made from then
\* on, whichever item failed.
C28_FirstFailureEndsLoop ==
    [][/\ (giPc' = "thrown" /\ giPc # "thrown" /\ PreQuestMounted)
          => /\ pqError' = Some(CouldNotLoadMessage)
             /\ ~isLoading'
             /\ giItem' = giItem
             /\ giRequests' = giRequests
       /\ (giPc = "thrown" /\ PreQuestMounted)
          => /\ pqError # Null
             /\ ENABLED ClickBeginModule
       /\ giPc = "thrown"
          => /\ giPc' = "thrown"
             /\ giItem' = giItem
             /\ giRequests' = giRequests]_vars

C28_Witness ==
    /\ PreQuestMounted
    /\ giPc = "thrown"
    /\ giItem = 1
    /\ giItem < Len(visualTask)
    /\ imageUrls = {}
    /\ matchedPairs = <<>>
    /\ pqError = Some(CouldNotLoadMessage)
    /\ ~isLoading

\* the requests of an action in flight: the one its handler in the mounted
\* component awaits and those of components since unmounted
InFlight(op, flag) ==
    (IF flag THEN 1 ELSE 0)
    + Cardinality({j \in 1..Len(tools.abandoned) : tools.abandoned[j] = op})

\* C29: for each of summarize, generate-ideas, write-article and solution
\* evaluation at most one request is in flight at a time; the in-progress
\* flag of the action is true while the mounted component awaits one.
C29_OneRequestPerAction ==
    /\ \A a \in {<<"summarizeAndUnderstand", tools.isSummarizing>>,
                 <<"generateArticleIdeas", tools.isGeneratingIdeas>>,
                 <<"writeArticle", tools.isWritingArticle>>} :
          InFlight(a[1], a[2]) <= 1
    /\ card.isEvaluating <=> (card.submittedOn # Null)

\* C30: whatever the concepts and the answers, entries for no existing
\* question included, the results have 0 <= score <= totalQuestions and
\* 0 <= percentage <= 100, and they are the results of the answers without
\* the entries that are for no existing question.
C30_ResultsWithinBounds ==
    results # Null
       => LET r == results[1]
              concepts == moduleData[1].concepts
          IN  /\ 0 <= r.score /\ r.score <= r.totalQuestions
              /\ 0 <= r.percentage /\ r.percentage <= 100
              /\ r = ResultsOverview(concepts, WithoutStrays(concepts, quizAnswers))

C30_Witness ==
    /\ results # Null
    /\ lastOp.name = "handleFinishModule"
    /\ WithoutStrays(moduleData[1].concepts, quizAnswers) # quizAnswers
    /\ \E c \in DOMAIN quizAnswers :
          /\ c >= Len(moduleData[1].concepts)
          /\ \E q \in DOMAIN quizAnswers[c] : quizAnswers[c][q].isCorrect
    /\ \E c \in DOMAIN quizAnswers :
          /\ c < Len(moduleData[1].concepts)
          /\ \E q \in DOMAIN quizAnswers[c] :
                /\ q >= Len(moduleData[1].concepts[c + 1].quiz)
                /\ quizAnswers[c][q].isCorrect
    /\ results[1].score > 0
    /\ results[1].score < results[1].totalQuestions

====
